---- MODULE Spec2Model ----
(***************************************************************************)
(* UART bootloader protocol engine (uart_bootloader.c) and W25Q128 SPI NOR *)
(* flash driver (w25q128.c).  Every C function is an operator that takes   *)
(* an execution context c and returns the context after the call; the HAL  *)
(* primitives (SPI, UART, GPIO, tick) and the flash device are the         *)
(* environment, whose answers are drawn from the record c.env.             *)
(***************************************************************************)
EXTENDS Integers, Sequences, FiniteSets, TLC

VARIABLES
    tr,                     \* HAL calls made by the last API call, in order
    cs,                     \* chip-select line: "high" or "low"
    dev,                    \* flash device: status reads that still show BUSY
    wel,                    \* flash device: write-enable latch
    rxq,                    \* bytes the host has sent and the UART has not read
    total_bytes_written,    \* hboot->total_bytes_written
    total_bytes_read,       \* hboot->total_bytes_read
    last,                   \* the last API call: name, arguments, result
    left,                   \* bytes of a NACKed frame still on the link; -1 if none
    pc,                     \* where BOOT_Process stands: "marker" or "poll"
    now,                    \* HAL_GetTick() as the busy-poll last saw it
    deadline,               \* the local `timeout` of W25Q128_WaitForWriteEnd
    stuck                   \* the flash device keeps BUSY set for ever

vars ==
    <<tr, cs, dev, wel, rxq, total_bytes_written, total_bytes_read, last,
      pc, now, deadline, stuck, left>>

\* The state of a busy-poll in progress, when its iterations are steps.
pollvars == <<pc, now, deadline, stuck>>

(***************************************************************************)
(* Bounds of the model.                                                    *)
(***************************************************************************)
MaxPolls == 2       \* a program/erase keeps BUSY set for at most this many polls
MaxSpiFail == 6     \* the failing SPI HAL call is among the first MaxSpiFail
MaxCrcLen == 3      \* the checksum is taken of every sequence of CrcBytesIn up to this length
MaxTotal == 5       \* the host sends data frames while the counters sum below this

(***************************************************************************)
(* Program constants.                                                      *)
(***************************************************************************)
W25Q128_CMD_WRITE_ENABLE == 6
W25Q128_CMD_WRITE_DISABLE == 4
W25Q128_CMD_READ_STATUS_REG1 == 5
W25Q128_CMD_PAGE_PROGRAM == 2
W25Q128_CMD_BLOCK_ERASE_64KB == 216
W25Q128_CMD_SECTOR_ERASE_4KB == 32
W25Q128_CMD_CHIP_ERASE == 199
W25Q128_CMD_POWER_DOWN == 185
W25Q128_CMD_READ_DATA == 3
W25Q128_CMD_RELEASE_POWER_DOWN == 171
W25Q128_CMD_MANUFACTURER_DEVICE_ID == 144
W25Q128_CMD_JEDEC_ID == 159
W25Q128_PAGE_SIZE == 256
W25Q128_SECTOR_SIZE == 4096
W25Q128_TOTAL_SIZE == 16777216
W25Q128_STATUS_BUSY == 1
W25Q128_STATUS_WEL == 2
BUSY_TIMEOUT_TICKS == 5000
BOOT_START_MARKER1 == 170
BOOT_START_MARKER2 == 85
BOOT_ACK == 121
BOOT_NACK == 31
BOOT_CMD_WRITE == 1
BOOT_CMD_READ == 2
BOOT_CMD_ERASE_SECTOR == 3
BOOT_CMD_ERASE_CHIP == 4
BOOT_CMD_GET_INFO == 5
BOOT_CMD_VERIFY == 6
BOOT_MAX_DATA_SIZE == 4096
BOOT_BUFFER_SIZE == 256
UINT16 == 65536
CRC_INIT == 65535
CRC_POLY == 4129

(***************************************************************************)
(* Integer helpers: C's unsigned arithmetic on 8-, 16- and 32-bit values.  *)
(***************************************************************************)
Min(a, b) == IF a < b THEN a ELSE b

\* (x >> (8 * i)) & 0xFF
RECURSIVE ByteOf(_, _)
ByteOf(x, i) == IF i = 0 THEN x % 256 ELSE ByteOf(x \div 256, i - 1)

\* a ^ b on one bit
Xor1(a, b) == ((a % 2) + (b % 2)) % 2

\* a ^ b on n-bit values, four bits at a time
RECURSIVE BitXor(_, _, _)
BitXor(a, b, n) ==
    IF n = 0 THEN 0
    ELSE IF n < 4 THEN Xor1(a, b) + 2 * BitXor(a \div 2, b \div 2, n - 1)
    ELSE Xor1(a, b) + 2 * Xor1(a \div 2, b \div 2) + 4 * Xor1(a \div 4, b \div 4)
         + 8 * Xor1(a \div 8, b \div 8) + 16 * BitXor(a \div 16, b \div 16, n - 4)

\* A uint32_t is the pair <<high 16 bits, low 16 bits>>.
U32(hi, lo) == <<hi, lo>>
Hi(x) == x[1]
Lo(x) == x[2]

\* (uint32_t)(x + n), for 0 <= n < 2^30
U32Add(x, n) ==
    LET lo == Lo(x) + (n % UINT16)
        hi == Hi(x) + (n \div UINT16) + (lo \div UINT16)
    IN  U32(hi % UINT16, lo % UINT16)

\* x > y on uint32_t
U32Gt(x, y) == Hi(x) > Hi(y) \/ (Hi(x) = Hi(y) /\ Lo(x) > Lo(y))

\* AddrBytes in the byte order of the serial link: low byte first.
AddrBytes_LittleEndian(address) ==
    <<ByteOf(Lo(address), 0), ByteOf(Lo(address), 1), ByteOf(Hi(address), 0)>>

\* cmd[1..3] = (address >> 16) & 0xFF, (address >> 8) & 0xFF, address & 0xFF
AddrBytes(address) ==
    <<ByteOf(Hi(address), 0), ByteOf(Lo(address), 1), ByteOf(Lo(address), 0)>>

\* buffer[0] | buffer[1] << 8 | buffer[2] << 16 | buffer[3] << 24
LE32(b) == U32(b[3] + 256 * b[4], b[1] + 256 * b[2])

\* buffer[0] | buffer[1] << 8
LE16(b) == b[1] + 256 * b[2]

(***************************************************************************)
(* Environment: what the HAL and the flash device answer during one API    *)
(* call.  spiFail and utxFail number the SPI HAL call and the UART         *)
(* transmit of this API call that return an error (0: none); polls is the  *)
(* number of status reads a program or erase started now keeps BUSY set;   *)
(* t0 is the tick at entry and step the ticks one status read takes; hdr   *)
(* is 2, or the number of bytes read before the receive of the start       *)
(* markers returned an error; chip is the flash part that is fitted.       *)
(***************************************************************************)
TickStarts ==
    {U32(0, 0), U32(UINT16 - 1, UINT16 - BUSY_TIMEOUT_TICKS - 1), U32(UINT16 - 1, UINT16 - 1)}
TickSteps == {0, 2501, BUSY_TIMEOUT_TICKS + 1}

MkEnv(spiFail, utxFail, polls, t0, step) ==
    [spiFail |-> spiFail, utxFail |-> utxFail, polls |-> polls, t0 |-> t0,
     step |-> step, hdr |-> 2, chip |-> 1]

\* Flash array contents seen by a read (S5: DE AD BE EF at address 0).
FlashContent(a) ==
    LET m == a % W25Q128_TOTAL_SIZE
    IN IF m < 4 THEN <<222, 173, 190, 239>>[m + 1] ELSE (m * 7 + 1) % 256

FlashRange(a, n) == [i \in 1..n |-> FlashContent(a + i - 1)]

\* Manufacturer/device ID and JEDEC ID of the W25Q128 (S1).
DeviceID == <<239, 23>>
JedecID == <<239, 64, 24>>

\* The IDs of the parts that may be fitted: the W25Q128, and a GD25Q64.
ChipIDs == <<DeviceID, <<200, 22>>>>
ChipJedecIDs == <<JedecID, <<200, 64, 23>>>>

(***************************************************************************)
(* Execution context of one API call.                                      *)
(***************************************************************************)
Ctx(env) ==
    [tr |-> <<>>, cs |-> cs, dev |-> dev, wel |-> wel, frame |-> <<>>,
     nspi |-> 0, nutx |-> 0, rxq |-> rxq, tick |-> env.t0, env |-> env,
     st |-> "OK", out |-> <<>>, cmd |-> 0 - 1, dl |-> U32(0, 0),
     addr |-> U32(0, 0), buf |-> <<>>,
     w |-> total_bytes_written, r |-> total_bytes_read]

\* One entry of the trace; busy is the device's BUSY bit and tick the
\* millisecond tick when it happens.
Ev(c, k, d, ok) == [k |-> k, d |-> d, ok |-> ok, busy |-> c.dev > 0, tick |-> c.tick]

Log(c, k, d, ok) == [c EXCEPT !.tr = Append(@, Ev(c, k, d, ok))]

Ret(c, st) == [c EXCEPT !.st = st]

ProgramEraseOps ==
    {W25Q128_CMD_PAGE_PROGRAM, W25Q128_CMD_SECTOR_ERASE_4KB,
     W25Q128_CMD_BLOCK_ERASE_64KB, W25Q128_CMD_CHIP_ERASE}

(***************************************************************************)
(* The flash device.  It executes the command clocked in during a          *)
(* chip-select interval when the line rises; while BUSY it ignores every   *)
(* command but a status read; a program or erase needs the latch armed.    *)
(***************************************************************************)
DeviceExecute(c) ==
    LET op == IF c.frame = <<>> THEN 0 - 1 ELSE c.frame[1]
    IN  IF c.dev > 0 THEN c
        ELSE IF op = W25Q128_CMD_WRITE_ENABLE THEN [c EXCEPT !.wel = TRUE]
        ELSE IF op = W25Q128_CMD_WRITE_DISABLE THEN [c EXCEPT !.wel = FALSE]
        ELSE IF op \in ProgramEraseOps /\ c.wel
             THEN [c EXCEPT !.dev = c.env.polls, !.wel = FALSE]
        ELSE c

\* The n bytes the device shifts out after the command in c.frame.
DeviceAnswer(c, n) ==
    LET op == IF c.frame = <<>> THEN 0 - 1 ELSE c.frame[1]
    IN  IF op = W25Q128_CMD_READ_STATUS_REG1
            THEN [i \in 1..n |->
                     (IF c.dev > 0 THEN W25Q128_STATUS_BUSY ELSE 0)
                     + (IF c.wel THEN W25Q128_STATUS_WEL ELSE 0)]
        ELSE IF op = W25Q128_CMD_READ_DATA /\ Len(c.frame) >= 4
            THEN FlashRange(65536 * c.frame[2] + 256 * c.frame[3] + c.frame[4], n)
        ELSE IF op = W25Q128_CMD_MANUFACTURER_DEVICE_ID
            THEN [i \in 1..n |-> ChipIDs[c.env.chip][((i - 1) % 2) + 1]]
        ELSE IF op = W25Q128_CMD_JEDEC_ID
            THEN [i \in 1..n |-> ChipJedecIDs[c.env.chip][((i - 1) % 3) + 1]]
        ELSE [i \in 1..n |-> 255]

(***************************************************************************)
(* HAL primitives.                                                         *)
(***************************************************************************)
\* HAL_GPIO_WritePin(cs_port, cs_pin, GPIO_PIN_RESET)
CS_LOW(c) == [Log(c, "cs_low", <<>>, TRUE) EXCEPT !.cs = "low", !.frame = <<>>]

\* HAL_GPIO_WritePin(cs_port, cs_pin, GPIO_PIN_SET)
CS_HIGH(c) ==
    LET e == IF c.cs = "low" THEN DeviceExecute(c) ELSE c
    IN  [Log(e, "cs_high", <<>>, TRUE) EXCEPT !.cs = "high", !.frame = <<>>]

\* HAL_SPI_Transmit(hspi, bytes, Len(bytes), W25Q128_TIMEOUT_MS); st = "OK" iff HAL_OK
HAL_SPI_Transmit(c, bytes) ==
    LET n == c.nspi + 1
        ok == c.env.spiFail # n
        l == Log(c, "spi_tx", bytes, ok)
    IN  [l EXCEPT !.nspi = n, !.st = IF ok THEN "OK" ELSE "ERROR",
                  !.frame = IF ok /\ c.cs = "low" THEN @ \o bytes ELSE @]

\* HAL_SPI_Receive(hspi, out, n, W25Q128_TIMEOUT_MS); a status read takes
\* env.step ticks and uses up one of the device's BUSY polls.
HAL_SPI_Receive(c, n) ==
    LET k == c.nspi + 1
        ok == c.env.spiFail # k
        data == IF ok /\ c.cs = "low" THEN DeviceAnswer(c, n) ELSE [i \in 1..n |-> 255]
        status == c.frame # <<>> /\ c.frame[1] = W25Q128_CMD_READ_STATUS_REG1
        l == Log(c, "spi_rx", data, ok)
    IN  [l EXCEPT !.nspi = k, !.st = IF ok THEN "OK" ELSE "ERROR", !.out = data,
                  !.tick = IF status THEN U32Add(@, c.env.step) ELSE @,
                  !.dev = IF status /\ ok /\ @ > 0 THEN @ - 1 ELSE @]

\* HAL_GetTick()
HAL_GetTick(c) == c.tick

\* HAL_UART_Receive(huart, out, n, timeout): HAL_OK with the next n bytes of
\* the host; a timeout, having read the `got` < n bytes that did arrive.
HAL_UART_Receive(c, n, got) ==
    LET ok == got = n
        data == SubSeq(c.rxq, 1, got)
        l == Log(c, "uart_rx", data, ok)
    IN  [l EXCEPT !.st = IF ok THEN "OK" ELSE "ERROR", !.out = data,
                  !.rxq = SubSeq(@, got + 1, Len(@))]

\* HAL_UART_Transmit(huart, bytes, Len(bytes), BOOT_TIMEOUT_MS)
HAL_UART_Transmit(c, bytes) ==
    LET n == c.nutx + 1
        ok == c.env.utxFail # n
        l == Log(c, "uart_tx", bytes, ok)
    IN  [l EXCEPT !.nutx = n, !.st = IF ok THEN "OK" ELSE "ERROR"]

(***************************************************************************)
(* w25q128.c: the flash driver.  st is the W25Q128_Status_t returned.      *)
(* Bind(v, LAMBDA x : e) is e with x the value v: one statement's result   *)
(* handed to the statements after it.                                      *)
(***************************************************************************)
Bind(v, Op(_)) == Op(v)

\* A transaction that only transmits cmd: CS_LOW, transmit, CS_HIGH on both paths.
SendCommand(c, cmd) ==
    Bind(HAL_SPI_Transmit(CS_LOW(c), cmd), LAMBDA a :
        IF a.st # "OK" THEN Ret(CS_HIGH(a), "ERROR")
        ELSE Ret(CS_HIGH(a), "OK"))

\* SendCommandReceive with the chip-select release forgotten on the path of a
\* failed receive.
SendCommandReceive_NoRelease(c, cmd, n) ==
    Bind(HAL_SPI_Transmit(CS_LOW(c), cmd), LAMBDA a :
        IF a.st # "OK" THEN Ret(CS_HIGH(a), "ERROR")
        ELSE Bind(HAL_SPI_Receive(a, n), LAMBDA b :
            IF b.st # "OK" THEN Ret(b, "ERROR")
            ELSE Ret(CS_HIGH(b), "OK")))

\* A transaction that transmits cmd and then receives n bytes into out.
SendCommandReceive(c, cmd, n) ==
    Bind(HAL_SPI_Transmit(CS_LOW(c), cmd), LAMBDA a :
        IF a.st # "OK" THEN Ret(CS_HIGH(a), "ERROR")
        ELSE Bind(HAL_SPI_Receive(a, n), LAMBDA b :
            IF b.st # "OK" THEN Ret(CS_HIGH(b), "ERROR")
            ELSE Ret(CS_HIGH(b), "OK")))

W25Q128_ReadID(c) ==
    SendCommandReceive(c, <<W25Q128_CMD_MANUFACTURER_DEVICE_ID, 0, 0, 0>>, 2)

W25Q128_ReadJEDECID(c) == SendCommandReceive(c, <<W25Q128_CMD_JEDEC_ID>>, 3)

W25Q128_ReadStatusRegister(c) ==
    SendCommandReceive(c, <<W25Q128_CMD_READ_STATUS_REG1>>, 1)

\* do { read status; if error return; if (HAL_GetTick() > timeout) return
\* TIMEOUT; } while (status & W25Q128_STATUS_BUSY)
RECURSIVE WaitLoop(_, _)
WaitLoop(c, timeout) ==
    Bind(W25Q128_ReadStatusRegister(c), LAMBDA a :
        IF a.st # "OK" THEN Ret(a, "ERROR")
        ELSE IF U32Gt(HAL_GetTick(a), timeout) THEN Ret(a, "TIMEOUT")
        ELSE IF a.out[1] % 2 = W25Q128_STATUS_BUSY THEN WaitLoop(a, timeout)
        ELSE Ret(a, "OK"))

\* uint32_t timeout = HAL_GetTick() + 5000
W25Q128_WaitForWriteEnd(c) ==
    WaitLoop(c, U32Add(HAL_GetTick(c), BUSY_TIMEOUT_TICKS))

\* W25Q128_WriteEnable that does not look at the result of its transmit.
W25Q128_WriteEnable_Unchecked(c) ==
    Bind(HAL_SPI_Transmit(CS_LOW(c), <<W25Q128_CMD_WRITE_ENABLE>>), LAMBDA a :
        Ret(CS_HIGH(a), "OK"))

W25Q128_WriteEnable(c) == SendCommand(c, <<W25Q128_CMD_WRITE_ENABLE>>)

W25Q128_WriteDisable(c) == SendCommand(c, <<W25Q128_CMD_WRITE_DISABLE>>)

W25Q128_PowerDown(c) == SendCommand(c, <<W25Q128_CMD_POWER_DOWN>>)

W25Q128_WakeUp(c) == SendCommand(c, <<W25Q128_CMD_RELEASE_POWER_DOWN>>)

\* W25Q128_Read that waits for the device to be idle first.
W25Q128_Read_Polled(c, address, length) ==
    Bind(W25Q128_WaitForWriteEnd(c), LAMBDA w :
        IF w.st # "OK" THEN w
        ELSE SendCommandReceive(w, <<W25Q128_CMD_READ_DATA>> \o AddrBytes(address), length))

W25Q128_Read(c, address, length) ==
    SendCommandReceive(c, <<W25Q128_CMD_READ_DATA>> \o AddrBytes(address), length)

\* PageLengthOk with the limit of two pages.
PageLengthOk_TwoPages(length) == length <= 2 * W25Q128_PAGE_SIZE

\* The length check of W25Q128_WritePage.
PageLengthOk(length) == length <= W25Q128_PAGE_SIZE

\* The call is logged as <<Hi(address), Lo(address), length>>.
W25Q128_WritePage(c, address, buffer, length) ==
    Bind(Log(c, "WritePage", <<Hi(address), Lo(address), length>>, TRUE), LAMBDA c0 :
        IF ~PageLengthOk(length) THEN Ret(c0, "ERROR")
        ELSE Bind(W25Q128_WriteEnable(c0), LAMBDA we :
            IF we.st # "OK" THEN Ret(we, "ERROR")
            ELSE Bind(HAL_SPI_Transmit(CS_LOW(we),
                          <<W25Q128_CMD_PAGE_PROGRAM>> \o AddrBytes(address)), LAMBDA a :
                IF a.st # "OK" THEN Ret(CS_HIGH(a), "ERROR")
                ELSE Bind(HAL_SPI_Transmit(a, SubSeq(buffer, 1, length)), LAMBDA b :
                    IF b.st # "OK" THEN Ret(CS_HIGH(b), "ERROR")
                    ELSE W25Q128_WaitForWriteEnd(CS_HIGH(b))))))

\* WriteLength with the page offset forgotten: always up to a whole page.
WriteLength_NoOffset(current_address, remaining) ==
    IF W25Q128_PAGE_SIZE > remaining THEN remaining ELSE W25Q128_PAGE_SIZE

\* WriteLength with half the page size: chunks end at 128-byte boundaries.
WriteLength_HalfPage(current_address, remaining) ==
    LET page_offset == Lo(current_address) % (W25Q128_PAGE_SIZE \div 2)
        write_length == (W25Q128_PAGE_SIZE \div 2) - page_offset
    IN  IF write_length > remaining THEN remaining ELSE write_length

\* write_length of one iteration of W25Q128_Write
WriteLength(current_address, remaining) ==
    LET page_offset == Lo(current_address) % W25Q128_PAGE_SIZE
        write_length == W25Q128_PAGE_SIZE - page_offset
    IN  IF write_length > remaining THEN remaining ELSE write_length

\* WriteLoop that goes on to the later chunks after a chunk has failed.
RECURSIVE WriteLoop_GoOn(_, _, _, _)
WriteLoop_GoOn(c, current_address, current_buffer, remaining) ==
    IF remaining > 0
    THEN Bind(WriteLength(current_address, remaining), LAMBDA write_length :
             Bind(W25Q128_WritePage(c, current_address, current_buffer, write_length),
                  LAMBDA a :
                 Bind(WriteLoop_GoOn(a, U32Add(current_address, write_length),
                                     SubSeq(current_buffer, write_length + 1,
                                            Len(current_buffer)),
                                     remaining - write_length), LAMBDA rest :
                     IF a.st # "OK" THEN Ret(rest, "ERROR") ELSE rest)))
    ELSE Ret(c, "OK")

\* while (remaining > 0)
RECURSIVE WriteLoop(_, _, _, _)
WriteLoop(c, current_address, current_buffer, remaining) ==
    IF remaining > 0
    THEN Bind(WriteLength(current_address, remaining), LAMBDA write_length :
             Bind(W25Q128_WritePage(c, current_address, current_buffer, write_length),
                  LAMBDA a :
                 IF a.st # "OK" THEN Ret(a, "ERROR")
                 ELSE WriteLoop(a, U32Add(current_address, write_length),
                                SubSeq(current_buffer, write_length + 1, Len(current_buffer)),
                                remaining - write_length)))
    ELSE Ret(c, "OK")

W25Q128_Write(c, address, buffer, length) == WriteLoop(c, address, buffer, length)

\* EraseCommand with the write enable forgotten.
EraseCommand_NoEnable(c, cmd) ==
    Bind(HAL_SPI_Transmit(CS_LOW(c), cmd), LAMBDA a :
        IF a.st # "OK" THEN Ret(CS_HIGH(a), "ERROR")
        ELSE W25Q128_WaitForWriteEnd(CS_HIGH(a)))

\* write enable, one command transaction, busy-poll: the three erases
EraseCommand(c, cmd) ==
    Bind(W25Q128_WriteEnable(c), LAMBDA we :
        IF we.st # "OK" THEN Ret(we, "ERROR")
        ELSE Bind(HAL_SPI_Transmit(CS_LOW(we), cmd), LAMBDA a :
            IF a.st # "OK" THEN Ret(CS_HIGH(a), "ERROR")
            ELSE W25Q128_WaitForWriteEnd(CS_HIGH(a))))

\* W25Q128_EraseSector that refuses an address at or above the capacity.
W25Q128_EraseSector_Checked(c, sector_address) ==
    IF Hi(sector_address) * UINT16 >= W25Q128_TOTAL_SIZE THEN Ret(c, "ERROR")
    ELSE EraseCommand(c, <<W25Q128_CMD_SECTOR_ERASE_4KB>> \o AddrBytes(sector_address))

W25Q128_EraseSector(c, sector_address) ==
    EraseCommand(c, <<W25Q128_CMD_SECTOR_ERASE_4KB>> \o AddrBytes(sector_address))

W25Q128_EraseBlock64KB(c, block_address) ==
    EraseCommand(c, <<W25Q128_CMD_BLOCK_ERASE_64KB>> \o AddrBytes(block_address))

W25Q128_EraseChip(c) == EraseCommand(c, <<W25Q128_CMD_CHIP_ERASE>>)

(***************************************************************************)
(* uart_bootloader.c: the protocol engine.  st is the BOOT_Status_t        *)
(* returned.                                                               *)
(***************************************************************************)
\* The eight shift steps of one byte: j steps are left.
RECURSIVE CrcShift(_, _)
CrcShift(crc, j) ==
    IF j = 0 THEN crc
    ELSE IF crc >= 32768
        THEN CrcShift(BitXor((crc * 2) % UINT16, CRC_POLY, 16), j - 1)
        ELSE CrcShift((crc * 2) % UINT16, j - 1)

\* CrcByte with the byte put into the low byte of the accumulator.
CrcByte_LowByte(crc, byte) == CrcShift(BitXor(crc, byte, 16), 8)

\* crc ^= (uint16_t)data[i] << 8, then the eight shift steps
CrcByte(crc, byte) == CrcShift(BitXor(crc, byte * 256, 16), 8)

\* The loop over data[lo..hi], in index order.  The range is split in halves
\* and the first half's value is taken before the second half starts, which
\* bounds the depth of the evaluation; crc is always a 16-bit value.
RECURSIVE CrcLoop(_, _, _, _)
CrcLoop(crc, data, lo, hi) ==
    IF lo > hi THEN crc
    ELSE IF lo = hi THEN CrcByte(crc, data[lo])
    ELSE Bind(CrcLoop(crc, data, lo, (lo + hi) \div 2), LAMBDA first :
             IF first < UINT16 THEN CrcLoop(first, data, ((lo + hi) \div 2) + 1, hi)
             ELSE first)

BOOT_CalculateCRC16(data, length) == CrcLoop(CRC_INIT, data, 1, length)

\* BOOT_SendResponse with a diagnostic byte sent after a NACK.
BOOT_SendResponse_Diagnostic(c, response) ==
    Bind(HAL_UART_Transmit(Log(c, "SendResponse", <<response>>, TRUE), <<response>>),
         LAMBDA a :
             IF a.st # "OK" THEN Ret(a, "ERROR")
             ELSE IF response = BOOT_NACK THEN Ret(HAL_UART_Transmit(a, <<0>>), "OK")
             ELSE Ret(a, "OK"))

\* The call is logged before the byte is handed to the UART.
BOOT_SendResponse(c, response) ==
    Bind(HAL_UART_Transmit(Log(c, "SendResponse", <<response>>, TRUE), <<response>>),
         LAMBDA a : IF a.st # "OK" THEN Ret(a, "ERROR") ELSE Ret(a, "OK"))

BOOT_SendData(c, data, length) ==
    Bind(HAL_UART_Transmit(c, SubSeq(data, 1, length)),
         LAMBDA a : IF a.st # "OK" THEN Ret(a, "ERROR") ELSE Ret(a, "OK"))

\* The receive times out when the host has sent fewer than length bytes.
BOOT_ReceiveData(c, length) ==
    Bind(HAL_UART_Receive(c, length, Min(length, Len(c.rxq))),
         LAMBDA a : IF a.st # "OK" THEN Ret(a, "TIMEOUT") ELSE Ret(a, "OK"))

\* LengthInvalid with the upper limit forgotten.
LengthInvalid_ZeroOnly(data_length) == data_length = U32(0, 0)

\* LengthInvalid with the test for zero forgotten.
LengthInvalid_AboveOnly(data_length) == U32Gt(data_length, U32(0, BOOT_MAX_DATA_SIZE))

\* data_length == 0 || data_length > BOOT_MAX_DATA_SIZE
LengthInvalid(data_length) ==
    data_length = U32(0, 0) \/ U32Gt(data_length, U32(0, BOOT_MAX_DATA_SIZE))

\* chunk_size of one iteration of the receive loop
ChunkSize(remaining) ==
    IF remaining > BOOT_BUFFER_SIZE THEN BOOT_BUFFER_SIZE ELSE remaining

\* ReceiveLoop that drains one more byte after a chunk timed out.
RECURSIVE ReceiveLoop_Drain(_, _)
ReceiveLoop_Drain(c, remaining) ==
    IF remaining > 0
    THEN Bind(BOOT_ReceiveData(c, ChunkSize(remaining)), LAMBDA a :
             IF a.st # "OK" THEN Ret(BOOT_ReceiveData(a, 1), "TIMEOUT")
             ELSE ReceiveLoop_Drain([a EXCEPT !.buf = @ \o a.out],
                                    remaining - ChunkSize(remaining)))
    ELSE Ret(c, "OK")

\* while (remaining > 0): receive into &data_buffer[offset], offset = Len(c.buf)
RECURSIVE ReceiveLoop(_, _)
ReceiveLoop(c, remaining) ==
    IF remaining > 0
    THEN Bind(BOOT_ReceiveData(c, ChunkSize(remaining)), LAMBDA a :
             IF a.st # "OK" THEN Ret(a, "TIMEOUT")
             ELSE ReceiveLoop([a EXCEPT !.buf = @ \o a.out],
                              remaining - ChunkSize(remaining)))
    ELSE Ret(c, "OK")

\* CrcMismatch with the comparison lost: every CRC passes.
CrcMismatch_Ignored(crc_received, crc_calculated) == FALSE

\* crc_received != crc_calculated
CrcMismatch(crc_received, crc_calculated) == crc_received # crc_calculated

\* dl and addr keep data_length and address; buf is data_buffer
BOOT_HandleWrite(c) ==
    Bind(BOOT_ReceiveData(c, 4), LAMBDA r1 :
    IF r1.st # "OK" THEN Ret(BOOT_SendResponse(r1, BOOT_NACK), "TIMEOUT")
    ELSE Bind(LE32(r1.out), LAMBDA data_length :
    IF LengthInvalid(data_length)
        THEN Ret(BOOT_SendResponse([r1 EXCEPT !.dl = data_length], BOOT_NACK), "ERROR")
    ELSE Bind(BOOT_ReceiveData([r1 EXCEPT !.dl = data_length], 4), LAMBDA r2 :
    IF r2.st # "OK" THEN Ret(BOOT_SendResponse(r2, BOOT_NACK), "TIMEOUT")
    ELSE Bind(LE32(r2.out), LAMBDA address :
    Bind(ReceiveLoop([r2 EXCEPT !.addr = address], Lo(data_length)), LAMBDA r3 :
    IF r3.st # "OK" THEN Ret(BOOT_SendResponse(r3, BOOT_NACK), "TIMEOUT")
    ELSE Bind(BOOT_ReceiveData(r3, 2), LAMBDA r4 :
    IF r4.st # "OK" THEN Ret(BOOT_SendResponse(r4, BOOT_NACK), "TIMEOUT")
    ELSE IF CrcMismatch(LE16(r4.out), BOOT_CalculateCRC16(r4.buf, Lo(data_length)))
        THEN Ret(BOOT_SendResponse(r4, BOOT_NACK), "CRC_ERR")
    ELSE Bind(W25Q128_Write(r4, address, r4.buf, Lo(data_length)), LAMBDA wr :
    IF wr.st # "OK" THEN Ret(BOOT_SendResponse(wr, BOOT_NACK), "ERROR")
    ELSE Ret(BOOT_SendResponse([wr EXCEPT !.w = U32Add(@, Lo(data_length))],
                               BOOT_ACK), "OK"))))))))

\* CrcBytes with the high byte first.
CrcBytes_BigEndian(crc_calculated) == <<(crc_calculated \div 256) % 256, crc_calculated % 256>>

\* buffer[0] = crc_calculated & 0xFF; buffer[1] = (crc_calculated >> 8) & 0xFF
CrcBytes(crc_calculated) == <<crc_calculated % 256, (crc_calculated \div 256) % 256>>

BOOT_HandleRead(c) ==
    Bind(BOOT_ReceiveData(c, 4), LAMBDA r1 :
    IF r1.st # "OK" THEN Ret(BOOT_SendResponse(r1, BOOT_NACK), "TIMEOUT")
    ELSE Bind(LE32(r1.out), LAMBDA data_length :
    IF LengthInvalid(data_length)
        THEN Ret(BOOT_SendResponse([r1 EXCEPT !.dl = data_length], BOOT_NACK), "ERROR")
    ELSE Bind(BOOT_ReceiveData([r1 EXCEPT !.dl = data_length], 4), LAMBDA r2 :
    IF r2.st # "OK" THEN Ret(BOOT_SendResponse(r2, BOOT_NACK), "TIMEOUT")
    ELSE Bind(LE32(r2.out), LAMBDA address :
    Bind(W25Q128_Read([r2 EXCEPT !.addr = address], address, Lo(data_length)), LAMBDA rd :
    IF rd.st # "OK" THEN Ret(BOOT_SendResponse(rd, BOOT_NACK), "ERROR")
    ELSE Bind(BOOT_SendData(BOOT_SendResponse([rd EXCEPT !.buf = rd.out], BOOT_ACK),
                            rd.out, Lo(data_length)), LAMBDA sd :
    IF sd.st # "OK" THEN Ret(sd, "ERROR")
    ELSE Bind(BOOT_CalculateCRC16(sd.buf, Lo(data_length)), LAMBDA crc_calculated :
    Ret([BOOT_SendData(sd, CrcBytes(crc_calculated), 2)
             EXCEPT !.r = U32Add(@, Lo(data_length))], "OK"))))))))

BOOT_HandleEraseSector(c) ==
    Bind(BOOT_ReceiveData(c, 4), LAMBDA r1 :
    IF r1.st # "OK" THEN Ret(BOOT_SendResponse(r1, BOOT_NACK), "TIMEOUT")
    ELSE Bind(LE32(r1.out), LAMBDA address :
    Bind(W25Q128_EraseSector([r1 EXCEPT !.addr = address], address), LAMBDA er :
    IF er.st # "OK" THEN Ret(BOOT_SendResponse(er, BOOT_NACK), "ERROR")
    ELSE Ret(BOOT_SendResponse(er, BOOT_ACK), "OK"))))

\* BOOT_HandleEraseChip with the erased chip counted as bytes written.
BOOT_HandleEraseChip_Counted(c) ==
    Bind(W25Q128_EraseChip(c), LAMBDA er :
    IF er.st # "OK" THEN Ret(BOOT_SendResponse(er, BOOT_NACK), "ERROR")
    ELSE Ret(BOOT_SendResponse([er EXCEPT !.w = U32Add(@, W25Q128_SECTOR_SIZE)],
                               BOOT_ACK), "OK"))

BOOT_HandleEraseChip(c) ==
    Bind(W25Q128_EraseChip(c), LAMBDA er :
    IF er.st # "OK" THEN Ret(BOOT_SendResponse(er, BOOT_NACK), "ERROR")
    ELSE Ret(BOOT_SendResponse(er, BOOT_ACK), "OK"))

\* InfoRecord with the capacity written high byte first.
InfoRecord_BigEndian(manufacturer_id, device_id, jedec_id) ==
    <<manufacturer_id, device_id, jedec_id[1], jedec_id[2], jedec_id[3],
      ByteOf(W25Q128_TOTAL_SIZE, 3), ByteOf(W25Q128_TOTAL_SIZE, 2),
      ByteOf(W25Q128_TOTAL_SIZE, 1), ByteOf(W25Q128_TOTAL_SIZE, 0),
      ByteOf(W25Q128_PAGE_SIZE, 0), ByteOf(W25Q128_PAGE_SIZE, 1),
      ByteOf(W25Q128_SECTOR_SIZE, 0), ByteOf(W25Q128_SECTOR_SIZE, 1)>>

\* InfoRecord with the JEDEC ID before the manufacturer and device IDs.
InfoRecord_JedecFirst(manufacturer_id, device_id, jedec_id) ==
    <<jedec_id[1], jedec_id[2], jedec_id[3], manufacturer_id, device_id,
      ByteOf(W25Q128_TOTAL_SIZE, 0), ByteOf(W25Q128_TOTAL_SIZE, 1),
      ByteOf(W25Q128_TOTAL_SIZE, 2), ByteOf(W25Q128_TOTAL_SIZE, 3),
      ByteOf(W25Q128_PAGE_SIZE, 0), ByteOf(W25Q128_PAGE_SIZE, 1),
      ByteOf(W25Q128_SECTOR_SIZE, 0), ByteOf(W25Q128_SECTOR_SIZE, 1)>>

\* info[0..12]
InfoRecord(manufacturer_id, device_id, jedec_id) ==
    <<manufacturer_id, device_id, jedec_id[1], jedec_id[2], jedec_id[3],
      ByteOf(W25Q128_TOTAL_SIZE, 0), ByteOf(W25Q128_TOTAL_SIZE, 1),
      ByteOf(W25Q128_TOTAL_SIZE, 2), ByteOf(W25Q128_TOTAL_SIZE, 3),
      ByteOf(W25Q128_PAGE_SIZE, 0), ByteOf(W25Q128_PAGE_SIZE, 1),
      ByteOf(W25Q128_SECTOR_SIZE, 0), ByteOf(W25Q128_SECTOR_SIZE, 1)>>

BOOT_HandleGetInfo(c) ==
    Bind(W25Q128_ReadID(c), LAMBDA id :
    IF id.st # "OK" THEN Ret(BOOT_SendResponse(id, BOOT_NACK), "ERROR")
    ELSE Bind(W25Q128_ReadJEDECID(id), LAMBDA jd :
    IF jd.st # "OK" THEN Ret(BOOT_SendResponse(jd, BOOT_NACK), "ERROR")
    ELSE Ret(BOOT_SendData(BOOT_SendResponse(jd, BOOT_ACK),
                           InfoRecord(id.out[1], id.out[2], jd.out), 13), "OK")))

\* header[0] != BOOT_START_MARKER1 || header[1] != BOOT_START_MARKER2
MarkerMismatch(header) ==
    header[1] # BOOT_START_MARKER1 \/ header[2] # BOOT_START_MARKER2

\* Dispatch with a default branch that answers nothing.
Dispatch_SilentDefault(c, command) ==
    IF command = BOOT_CMD_WRITE THEN BOOT_HandleWrite(c)
    ELSE IF command = BOOT_CMD_READ THEN BOOT_HandleRead(c)
    ELSE IF command = BOOT_CMD_ERASE_SECTOR THEN BOOT_HandleEraseSector(c)
    ELSE IF command = BOOT_CMD_ERASE_CHIP THEN BOOT_HandleEraseChip(c)
    ELSE IF command = BOOT_CMD_GET_INFO THEN BOOT_HandleGetInfo(c)
    ELSE Ret(c, "VOID")

\* Dispatch with the reserved VERIFY code handled like a READ.
Dispatch_VerifyReads(c, command) ==
    IF command = BOOT_CMD_WRITE THEN BOOT_HandleWrite(c)
    ELSE IF command \in {BOOT_CMD_READ, BOOT_CMD_VERIFY} THEN BOOT_HandleRead(c)
    ELSE IF command = BOOT_CMD_ERASE_SECTOR THEN BOOT_HandleEraseSector(c)
    ELSE IF command = BOOT_CMD_ERASE_CHIP THEN BOOT_HandleEraseChip(c)
    ELSE IF command = BOOT_CMD_GET_INFO THEN BOOT_HandleGetInfo(c)
    ELSE Ret(BOOT_SendResponse(c, BOOT_NACK), "VOID")

\* switch (command)
Dispatch(c, command) ==
    IF command = BOOT_CMD_WRITE THEN BOOT_HandleWrite(c)
    ELSE IF command = BOOT_CMD_READ THEN BOOT_HandleRead(c)
    ELSE IF command = BOOT_CMD_ERASE_SECTOR THEN BOOT_HandleEraseSector(c)
    ELSE IF command = BOOT_CMD_ERASE_CHIP THEN BOOT_HandleEraseChip(c)
    ELSE IF command = BOOT_CMD_GET_INFO THEN BOOT_HandleGetInfo(c)
    ELSE Ret(BOOT_SendResponse(c, BOOT_NACK), "VOID")

\* st is the handler's status, or "VOID" when BOOT_Process called none.
BOOT_Process(c) ==
    Bind(HAL_UART_Receive(c, 2, c.env.hdr), LAMBDA h :
    IF h.st # "OK" THEN Ret(h, "VOID")
    ELSE IF MarkerMismatch(h.out) THEN Ret(h, "VOID")
    ELSE Bind(BOOT_ReceiveData(h, 1), LAMBDA rc :
    IF rc.st # "OK" THEN Ret(BOOT_SendResponse(rc, BOOT_NACK), "VOID")
    ELSE Dispatch([rc EXCEPT !.cmd = rc.out[1]], rc.out[1])))

(***************************************************************************)
(* State machine.  Between API calls the trace is empty (last.op = "none");*)
(* an API call runs to its return in one step and leaves its trace and     *)
(* result to be observed; Return hands control back to the caller.         *)
(***************************************************************************)
NoCall ==
    [op |-> "none", addr |-> U32(0, 0), len |-> 0, st |-> "OK", cmd |-> 0 - 1,
     dl |-> U32(0, 0), q0 |-> <<>>, w0 |-> U32(0, 0), r0 |-> U32(0, 0),
     k0 |-> 0 - 1]

Idle == last.op = "none"

Init ==
    /\ tr = <<>>
    /\ cs = "high"
    /\ dev = 0
    /\ wel = FALSE
    /\ rxq = <<>>
    /\ total_bytes_written = U32(0, 0)
    /\ total_bytes_read = U32(0, 0)
    /\ last = NoCall
    /\ pc = "marker"
    /\ now = U32(0, 0)
    /\ deadline = U32(0, 0)
    /\ stuck = FALSE
    /\ left = 0 - 1

\* The state after an API call that ended in context c.
\* What the call that ends in context c leaves on the link of a frame it
\* answered with NACK: the engine drains nothing, so every byte the host had
\* sent behind the ones the call read; an ACK ends the failure, and a call
\* that answers nothing takes its bytes from the head of what was left.
LeftAfter(c) ==
    LET taken == Len(rxq) - Len(c.rxq)
    IN  IF \E i \in 1..Len(c.tr) :
               c.tr[i].k = "SendResponse" /\ c.tr[i].d = <<BOOT_NACK>>
            THEN Len(c.rxq)
        ELSE IF \E i \in 1..Len(c.tr) : c.tr[i].k = "SendResponse" THEN 0 - 1
        ELSE IF left < 0 THEN left
        ELSE IF taken >= left THEN 0
        ELSE left - taken

Commit(c, op, addr, len) ==
    /\ tr' = c.tr
    /\ cs' = c.cs
    /\ dev' = c.dev
    /\ wel' = c.wel
    /\ rxq' = c.rxq
    /\ total_bytes_written' = c.w
    /\ total_bytes_read' = c.r
    /\ last' = [op |-> op, addr |-> addr, len |-> len, st |-> c.st, cmd |-> c.cmd,
                dl |-> c.dl, q0 |-> rxq,
                w0 |-> total_bytes_written, r0 |-> total_bytes_read,
                k0 |-> left]
    /\ left' = LeftAfter(c)
    /\ UNCHANGED pollvars

Return ==
    /\ ~Idle
    /\ tr' = <<>>
    /\ last' = NoCall
    /\ UNCHANGED <<cs, dev, wel, rxq, total_bytes_written, total_bytes_read, left>>
    /\ UNCHANGED pollvars

\* The device finishes its program or erase while nobody polls it.
DeviceFinish ==
    /\ Idle
    /\ dev > 0
    /\ dev' = 0
    /\ UNCHANGED <<tr, cs, wel, rxq, total_bytes_written, total_bytes_read, last>>
    /\ UNCHANGED <<pollvars, left>>

(***************************************************************************)
(* Direct calls of the driver's API.                                       *)
(***************************************************************************)
\* Environments of a call that polls the status register / that does not.
PollEnvs ==
    {MkEnv(f, 0, p, t, s) : f \in 0..MaxSpiFail, p \in 0..MaxPolls,
                            t \in TickStarts, s \in TickSteps}
PlainEnvs == {MkEnv(f, 0, 0, U32(0, 0), 0) : f \in 0..2}

WriteAddrs ==
    {U32(0, 0), U32(0, 128), U32(0, 255), U32(0, 256), U32(255, UINT16 - 1),
     U32(UINT16 - 1, UINT16 - 128), U32(UINT16 - 1, UINT16 - 1)}
WriteLens == {0, 1, 2, 128, 255, 256, 257, 512, 768}
PageLens == {0, 1, 256, 257}
Addrs == {U32(0, 0), U32(0, 4096), U32(18, 13398), U32(256, 4096), U32(UINT16 - 1, UINT16 - 1)}
ReadLens == {0, 1, 4}

\* The caller's buffer of n bytes.
Buf(n) == [i \in 1..n |-> (i - 1) % 251]

CallWrite ==
    /\ Idle
    /\ \E a \in WriteAddrs, n \in WriteLens, e \in PollEnvs :
           Commit(W25Q128_Write(Ctx(e), a, Buf(n), n), "Write", a, n)

CallWritePage ==
    /\ Idle
    /\ \E a \in WriteAddrs, n \in PageLens, e \in PollEnvs :
           Commit(W25Q128_WritePage(Ctx(e), a, Buf(n), n), "WritePage", a, n)

CallRead ==
    /\ Idle
    /\ \E a \in Addrs, n \in ReadLens, e \in PlainEnvs :
           Commit(W25Q128_Read(Ctx(e), a, n), "Read", a, n)

CallEraseSector ==
    /\ Idle
    /\ \E a \in Addrs, e \in PollEnvs :
           Commit(W25Q128_EraseSector(Ctx(e), a), "EraseSector", a, 0)

CallEraseBlock64KB ==
    /\ Idle
    /\ \E a \in Addrs, e \in PollEnvs :
           Commit(W25Q128_EraseBlock64KB(Ctx(e), a), "EraseBlock64KB", a, 0)

CallEraseChip ==
    /\ Idle
    /\ \E e \in PollEnvs : Commit(W25Q128_EraseChip(Ctx(e)), "EraseChip", U32(0, 0), 0)

CallReadID ==
    /\ Idle
    /\ \E e \in PlainEnvs : Commit(W25Q128_ReadID(Ctx(e)), "ReadID", U32(0, 0), 0)

CallReadJEDECID ==
    /\ Idle
    /\ \E e \in PlainEnvs : Commit(W25Q128_ReadJEDECID(Ctx(e)), "ReadJEDECID", U32(0, 0), 0)

CallReadStatusRegister ==
    /\ Idle
    /\ \E e \in PlainEnvs :
           Commit(W25Q128_ReadStatusRegister(Ctx(e)), "ReadStatusRegister", U32(0, 0), 0)

CallWaitForWriteEnd ==
    /\ Idle
    /\ \E e \in PollEnvs :
           Commit(W25Q128_WaitForWriteEnd(Ctx(e)), "WaitForWriteEnd", U32(0, 0), 0)

CallWriteEnable ==
    /\ Idle
    /\ \E e \in PlainEnvs : Commit(W25Q128_WriteEnable(Ctx(e)), "WriteEnable", U32(0, 0), 0)

CallWriteDisable ==
    /\ Idle
    /\ \E e \in PlainEnvs : Commit(W25Q128_WriteDisable(Ctx(e)), "WriteDisable", U32(0, 0), 0)

CallPowerDown ==
    /\ Idle
    /\ \E e \in PlainEnvs : Commit(W25Q128_PowerDown(Ctx(e)), "PowerDown", U32(0, 0), 0)

CallWakeUp ==
    /\ Idle
    /\ \E e \in PlainEnvs : Commit(W25Q128_WakeUp(Ctx(e)), "WakeUp", U32(0, 0), 0)

NextDriver ==
    \/ CallWrite
    \/ CallWritePage
    \/ CallRead
    \/ CallEraseSector
    \/ CallEraseBlock64KB
    \/ CallEraseChip
    \/ CallReadID
    \/ CallReadJEDECID
    \/ CallReadStatusRegister
    \/ CallWaitForWriteEnd
    \/ CallWriteEnable
    \/ CallWriteDisable
    \/ CallPowerDown
    \/ CallWakeUp
    \/ DeviceFinish
    \/ Return

SpecDriver == Init /\ [][NextDriver]_vars

(***************************************************************************)
(* Reading a trace.                                                        *)
(***************************************************************************)
\* The W25Q128_WritePage calls of a trace, in order: <<addr_hi, addr_lo, length>>.
PageCalls(t) ==
    LET IsCall(e) == e.k = "WritePage"
        calls == SelectSeq(t, IsCall)
    IN  [i \in 1..Len(calls) |-> calls[i].d]

\* The positions of the SPI transmits that open a chip-select interval.
CommandAt(t) == {i \in 2..Len(t) : t[i].k = "spi_tx" /\ t[i - 1].k = "cs_low"}

\* The opcodes of a trace in emission order.
Opcodes(t) ==
    LET IsCommand(p) == p.cmd
        marked == [i \in 1..Len(t) |->
                      [cmd |-> i \in CommandAt(t),
                       op |-> IF i \in CommandAt(t) THEN t[i].d[1] ELSE 0]]
        commands == SelectSeq(marked, IsCommand)
    IN  [i \in 1..Len(commands) |-> commands[i].op]

RECURSIVE SumLens(_, _)
SumLens(calls, i) == IF i > Len(calls) THEN 0 ELSE calls[i][3] + SumLens(calls, i + 1)

(***************************************************************************)
(* C1.  Every program_page call (a_i, n_i) that W25Q128_Write emits        *)
(* satisfies (a_i mod 256) + n_i <= 256, for any start address and any     *)
(* length; the same holds of the address and data bytes of every page      *)
(* program it puts on the SPI bus.                                         *)
(***************************************************************************)
C1_NoPageCrossing ==
    last.op = "Write" =>
        /\ \A i \in 1..Len(PageCalls(tr)) :
               (PageCalls(tr)[i][2] % W25Q128_PAGE_SIZE) + PageCalls(tr)[i][3]
                   <= W25Q128_PAGE_SIZE
        /\ \A i \in CommandAt(tr) :
               (tr[i].d[1] = W25Q128_CMD_PAGE_PROGRAM /\ i < Len(tr)
                /\ tr[i + 1].k = "spi_tx")
                   => tr[i].d[4] + Len(tr[i + 1].d) <= W25Q128_PAGE_SIZE

\* An unaligned multi-page write ran to the end: S3's four page programs.
C1_Witness ==
    /\ last.op = "Write"
    /\ last.addr = U32(0, 128)
    /\ last.len = 768
    /\ last.st = "OK"
    /\ Len(PageCalls(tr)) = 4

(***************************************************************************)
(* C2 as stated.  With every page program succeeding, the program_page     *)
(* calls of W25Q128_Write start at addr, are contiguous and ascending,     *)
(* their lengths sum to n, the first reaches the next page boundary (or is *)
(* n if smaller), the middle ones are full pages and only the last may be  *)
(* shorter; write(0x80, 768) emits (0x80,128) (0x100,256) (0x200,256)      *)
(* (0x300,128).                                                            *)
(***************************************************************************)
ChunkShape(calls, addr, n) ==
    /\ (n = 0) = (calls = <<>>)
    /\ SumLens(calls, 1) = n
    /\ \A i \in 1..Len(calls) :
        /\ calls[i][3] > 0
        /\ i = 1 => /\ U32(calls[1][1], calls[1][2]) = addr
                    /\ calls[1][3] = Min(W25Q128_PAGE_SIZE - (Lo(addr) % W25Q128_PAGE_SIZE), n)
        /\ (1 < i /\ i < Len(calls)) => calls[i][3] = W25Q128_PAGE_SIZE
        /\ i > 1 => /\ calls[i][2] % W25Q128_PAGE_SIZE = 0
                    /\ calls[i][3] <= W25Q128_PAGE_SIZE
                    /\ U32(calls[i][1], calls[i][2])
                           = U32Add(U32(calls[i - 1][1], calls[i - 1][2]), calls[i - 1][3])

Ascending(calls) ==
    \A i \in 2..Len(calls) :
        U32Gt(U32(calls[i][1], calls[i][2]), U32(calls[i - 1][1], calls[i - 1][2]))

S3Calls == <<<<0, 128, 128>>, <<0, 256, 256>>, <<0, 512, 256>>, <<0, 768, 128>>>>

C2_Original ==
    (last.op = "Write" /\ last.st = "OK") =>
        /\ ChunkShape(PageCalls(tr), last.addr, last.len)
        /\ Ascending(PageCalls(tr))
        /\ (last.addr = U32(0, 128) /\ last.len = 768) => PageCalls(tr) = S3Calls

(***************************************************************************)
(* C2 as amended.  The same, with each chunk starting where the previous   *)
(* one ended in 32-bit arithmetic; the addresses ascend unless the write   *)
(* runs past 0xFFFFFFFF, where current_address wraps to 0.                 *)
(***************************************************************************)
\* addr + n <= 2^32
NoWrap(addr, n) == Hi(U32Add(addr, n)) >= Hi(addr) \/ U32Add(addr, n) = U32(0, 0)

C2_Chunks ==
    (last.op = "Write" /\ last.st = "OK") =>
        /\ ChunkShape(PageCalls(tr), last.addr, last.len)
        /\ NoWrap(last.addr, last.len) => Ascending(PageCalls(tr))
        /\ (last.addr = U32(0, 128) /\ last.len = 768) => PageCalls(tr) = S3Calls

\* A successful write that wrapped: one byte at 0xFFFFFFFF, then a page at 0.
C2_Witness ==
    /\ last.op = "Write"
    /\ last.st = "OK"
    /\ last.addr = U32(UINT16 - 1, UINT16 - 1)
    /\ last.len = 257
    /\ PageCalls(tr) = <<<<UINT16 - 1, UINT16 - 1, 1>>, <<0, 0, 256>>>>

(***************************************************************************)
(* C3.  In the opcodes of every driver operation, each page-program        *)
(* (0x02), sector-erase (0x20), 64K block-erase (0xD8) and chip-erase      *)
(* (0xC7) opcode is never the first one, the opcode right before it is a   *)
(* write-enable (0x06), and the opcode before that one is not a second     *)
(* write-enable: nothing, not even a status read, comes between them.      *)
(***************************************************************************)
C3_WriteEnablePairing ==
    LET ops == Opcodes(tr)
    IN  \A i \in 1..Len(ops) :
            ops[i] \in ProgramEraseOps =>
                /\ i > 1
                /\ ops[i - 1] = W25Q128_CMD_WRITE_ENABLE
                /\ i > 2 => ops[i - 2] # W25Q128_CMD_WRITE_ENABLE

\* A multi-page write: a page program that follows the previous page's status poll.
C3_Witness ==
    /\ last.op = "Write"
    /\ last.st = "OK"
    /\ \E i \in 3..Len(Opcodes(tr)) :
           /\ Opcodes(tr)[i] = W25Q128_CMD_PAGE_PROGRAM
           /\ Opcodes(tr)[i - 2] = W25Q128_CMD_READ_STATUS_REG1

(***************************************************************************)
(* C5.  In every driver operation, whichever HAL transfer fails:           *)
(* chip-select is driven low before the first SPI byte of a transaction,   *)
(* is driven high exactly once for it, no SPI byte is exchanged while it   *)
(* is high, and it is high when the operation returns.                     *)
(***************************************************************************)
\* The level of the chip-select line just before event i of the trace: that
\* of the nearest earlier chip-select event, high when there is none.
CsLevelBefore(t, i) ==
    Bind({j \in 1..(i - 1) : t[j].k \in {"cs_low", "cs_high"}}, LAMBDA J :
        IF J = {} THEN "high"
        ELSE IF t[CHOOSE j \in J : \A m \in J : m <= j].k = "cs_low" THEN "low"
        ELSE "high")

C5_ChipSelect ==
    /\ cs = "high"
    /\ CsLevelBefore(tr, Len(tr) + 1) = "high"
    /\ \A i \in 1..Len(tr) :
           /\ tr[i].k = "cs_low" => CsLevelBefore(tr, i) = "high"
           /\ tr[i].k = "cs_high" => CsLevelBefore(tr, i) = "low"
           /\ tr[i].k \in {"spi_tx", "spi_rx"} => CsLevelBefore(tr, i) = "low"

\* A transfer failed in the middle of a transaction: the data phase of a page
\* program, or the receive phase of a read.
C5_Witness ==
    /\ last.op \in {"WritePage", "Read"}
    /\ last.st = "ERROR"
    /\ \E i \in 3..Len(tr) :
           /\ ~tr[i].ok
           /\ tr[i - 1].k = "spi_tx"
           /\ tr[i - 1].ok
           /\ tr[i - 2].k = "cs_low"

(***************************************************************************)
(* The host.  Frames are the byte strings the PC tool puts on the serial   *)
(* link; the CRC bytes are written out (CRC-16/CCITT-FALSE of "123456789"  *)
(* is 0x29B1), not computed by the engine's own routine.                   *)
(***************************************************************************)
Header(cmd) == <<BOOT_START_MARKER1, BOOT_START_MARKER2, cmd>>

Digits == <<49, 50, 51, 52, 53, 54, 55, 56, 57>>
BigPayload == [i \in 1..(BOOT_BUFFER_SIZE + 1) |-> (i - 1) % 64]

F_GetInfo == Header(BOOT_CMD_GET_INFO)
F_EraseSector == Header(BOOT_CMD_ERASE_SECTOR) \o <<0, 16, 0, 0>>
\* ERASE_SECTOR at 0x01123000: the fourth address byte is not zero
F_EraseSectorFar == Header(BOOT_CMD_ERASE_SECTOR) \o <<0, 48, 18, 1>>
F_EraseChip == Header(BOOT_CMD_ERASE_CHIP)
F_Unknown == Header(255)
F_Verify == Header(BOOT_CMD_VERIFY)
\* VERIFY and command 0x00 followed by the arguments the host goes on to send
F_VerifyArgs == Header(BOOT_CMD_VERIFY) \o <<4, 0, 0, 0>> \o <<0, 0, 0, 0>>
F_Cmd0Args == Header(0) \o <<1, 2, 3>>
\* WRITE of "123456789" at 0x000000FC: four bytes in one page, five in the next
F_Write == Header(BOOT_CMD_WRITE) \o <<9, 0, 0, 0>> \o <<252, 0, 0, 0>> \o Digits \o <<177, 41>>
F_WriteBadCrc ==
    Header(BOOT_CMD_WRITE) \o <<9, 0, 0, 0>> \o <<252, 0, 0, 0>> \o Digits \o <<177, 42>>
\* WRITE of 257 bytes at 0x00000080: received in two chunks
F_WriteBig ==
    Header(BOOT_CMD_WRITE) \o <<1, 1, 0, 0>> \o <<128, 0, 0, 0>> \o BigPayload \o <<161, 74>>
\* WRITE with length 0, 0x1001 and 0x01000000, then the bytes the host goes on to send
F_WriteLen0 == Header(BOOT_CMD_WRITE) \o <<0, 0, 0, 0>> \o <<0, 16, 0, 0>> \o <<255, 255>>
F_WriteOversize == Header(BOOT_CMD_WRITE) \o <<1, 16, 0, 0>> \o <<0, 0, 0, 0>> \o <<17, 34>>
\* ... of which the host has sent the length and one byte of the address
F_WriteOversizeCut == Header(BOOT_CMD_WRITE) \o <<1, 16, 0, 0>> \o <<0>>
F_WriteHuge == Header(BOOT_CMD_WRITE) \o <<0, 0, 0, 1>> \o <<0, 0, 0, 0>> \o <<17, 34>>
\* WRITE with length 4096 whose payload stops after three bytes
F_WriteMaxCut == Header(BOOT_CMD_WRITE) \o <<0, 16, 0, 0>> \o <<0, 0, 0, 0>> \o <<1, 2, 3>>
\* WRITE frames cut in the length, the address, the payload and the CRC
F_WriteCutLen == Header(BOOT_CMD_WRITE) \o <<9, 0>>
F_WriteCutAddr == Header(BOOT_CMD_WRITE) \o <<9, 0, 0, 0>> \o <<252, 0>>
F_WriteCutData == Header(BOOT_CMD_WRITE) \o <<9, 0, 0, 0>> \o <<252, 0, 0, 0>> \o <<49, 50, 51>>
F_WriteCutCrc == Header(BOOT_CMD_WRITE) \o <<9, 0, 0, 0>> \o <<252, 0, 0, 0>> \o Digits \o <<177>>
\* WRITE of 257 bytes whose second chunk never comes; READ cut in the length
F_WriteBigCut ==
    Header(BOOT_CMD_WRITE) \o <<1, 1, 0, 0>> \o <<128, 0, 0, 0>>
        \o SubSeq(BigPayload, 1, BOOT_BUFFER_SIZE)
F_ReadCutLen == Header(BOOT_CMD_READ) \o <<4>>
\* READ of 4 bytes at 0 (S5), and at 0x00123456
F_Read == Header(BOOT_CMD_READ) \o <<4, 0, 0, 0>> \o <<0, 0, 0, 0>>
F_ReadFar == Header(BOOT_CMD_READ) \o <<4, 0, 0, 0>> \o <<86, 52, 18, 0>>
F_ReadLen0 == Header(BOOT_CMD_READ) \o <<0, 0, 0, 0>> \o <<0, 0, 0, 0>>
F_ReadOversize == Header(BOOT_CMD_READ) \o <<1, 16, 0, 0>> \o <<0, 0, 0, 0>>
F_ReadCutAddr == Header(BOOT_CMD_READ) \o <<4, 0, 0, 0>> \o <<0, 0>>
F_EraseCutAddr == Header(BOOT_CMD_ERASE_SECTOR) \o <<0, 16>>
F_MarkerOnly == <<BOOT_START_MARKER1, BOOT_START_MARKER2>>
\* GET_INFO behind bytes that are no start marker: one byte, two, three, and
\* pairs that match one of the two markers
F_Junk1GetInfo == <<0>> \o F_GetInfo
F_Junk2GetInfo == <<17, 34>> \o F_GetInfo
F_Junk3GetInfo == <<0, 17, 34>> \o F_GetInfo
F_HalfMarker1GetInfo == <<BOOT_START_MARKER1, 0>> \o F_GetInfo
F_HalfMarker2GetInfo == <<0, BOOT_START_MARKER2>> \o F_GetInfo
\* noise alone, and a WRITE behind one byte of noise
F_Junk2 == <<17, 34>>
F_Junk1Write == <<0>> \o F_Write

\* Frames that can move a byte counter.
DataFrames == {F_Write, F_WriteBig, F_Read, F_ReadFar}

Frames ==
    DataFrames \cup
    {F_GetInfo, F_EraseSector, F_EraseSectorFar, F_EraseChip, F_Unknown, F_Verify,
     F_VerifyArgs, F_Cmd0Args, F_WriteBigCut, F_ReadCutLen, F_WriteBadCrc,
     F_WriteLen0, F_WriteOversize, F_WriteHuge, F_WriteMaxCut, F_WriteCutLen,
     F_WriteCutAddr, F_WriteCutData, F_WriteCutCrc, F_ReadLen0, F_ReadOversize,
     F_ReadCutAddr, F_EraseCutAddr, F_MarkerOnly, F_Junk1GetInfo, F_Junk2GetInfo,
     F_Junk3GetInfo, F_HalfMarker1GetInfo, F_HalfMarker2GetInfo, F_Junk2,
     F_Junk1Write, F_WriteOversizeCut}

\* The well-formed frames the host sends after a command that failed.
NextFrames == {F_GetInfo, F_EraseSector}

\* The host sends a frame once the engine has taken everything it sent before.
HostSend ==
    /\ Idle
    /\ rxq = <<>>
    /\ \E f \in Frames :
        /\ f \in DataFrames =>
               Lo(total_bytes_written) + Lo(total_bytes_read) < MaxTotal
        /\ rxq' = f
    /\ UNCHANGED <<tr, cs, dev, wel, total_bytes_written, total_bytes_read, last>>
    /\ UNCHANGED <<pollvars, left>>

\* After a NACK the host gives the failed frame up and sends the next frame,
\* behind the bytes of the failed frame that it had sent already.
HostSendNext ==
    /\ Idle
    /\ left > 0
    /\ Len(rxq) = left
    /\ \E g \in NextFrames : rxq' = rxq \o g
    /\ UNCHANGED <<tr, cs, dev, wel, total_bytes_written, total_bytes_read, last>>
    /\ UNCHANGED <<pollvars, left>>

(***************************************************************************)
(* One call of BOOT_Process from the main loop.                            *)
(***************************************************************************)
EngineTicks == {U32(0, 0), U32(UINT16 - 1, UINT16 - 1)}
EngineSteps == {0, BUSY_TIMEOUT_TICKS + 1}
\* A status read that takes half the busy timeout and a tick: the third read
\* after an entry is the first one past the deadline.
EngineStride == (BUSY_TIMEOUT_TICKS \div 2) + 1

\* The environments of one call: no fault, one failing SPI call, or one failing
\* UART transmit; the busy time and the clock matter to a program or erase.
ProcessEnvs(q) ==
    LET cmd == IF Len(q) >= 3 /\ ~MarkerMismatch(q) THEN q[3] ELSE 0 - 1
    IN  IF cmd \in {BOOT_CMD_WRITE, BOOT_CMD_ERASE_SECTOR, BOOT_CMD_ERASE_CHIP}
            THEN {MkEnv(0, 0, p, t, s) :
                      p \in 0..MaxPolls, t \in EngineTicks, s \in EngineSteps}
                 \cup {MkEnv(f, 0, p, U32(0, 0), 0) : f \in 1..MaxSpiFail, p \in 0..MaxPolls}
                 \cup {MkEnv(0, 1, p, U32(0, 0), 0) : p \in 0..MaxPolls}
                 \cup {MkEnv(0, 0, 1, U32(UINT16 - 1, UINT16 - BUSY_TIMEOUT_TICKS - 1),
                              EngineStride)}
        ELSE IF cmd \in {BOOT_CMD_READ, BOOT_CMD_GET_INFO}
            THEN {MkEnv(f, 0, 0, U32(0, 0), 0) : f \in 0..4}
                 \cup {MkEnv(0, u, 0, U32(0, 0), 0) : u \in 1..3}
                 \cup {[MkEnv(0, 0, 0, U32(0, 0), 0) EXCEPT !.chip = 2]}
        ELSE {MkEnv(0, u, 0, U32(0, 0), 0) : u \in 0..1}

Process ==
    /\ Idle
    /\ Len(rxq) >= 2
    /\ \E e \in ProcessEnvs(rxq) :
           LET c == BOOT_Process(Ctx(e))
           IN  Commit(c, "Process", c.addr, 0)

\* The blocking receive of the start markers returns an error, having taken
\* the h bytes that were there.
ProcessHeaderError ==
    /\ Idle
    /\ Len(rxq) < 2
    /\ \E h \in 0..Len(rxq) :
           LET c == BOOT_Process(Ctx([MkEnv(0, 0, 0, U32(0, 0), 0) EXCEPT !.hdr = h]))
           IN  Commit(c, "Process", c.addr, 0)

Next ==
    \/ HostSend
    \/ HostSendNext
    \/ Process
    \/ ProcessHeaderError
    \/ DeviceFinish
    \/ Return

Spec == Init /\ [][Next]_vars

(***************************************************************************)
(* Reading the trace of a BOOT_Process call.                               *)
(***************************************************************************)
SpiKinds == {"cs_low", "cs_high", "spi_tx", "spi_rx"}

\* The call touched the flash driver or the SPI bus.
HasSpi(t) == \E i \in 1..Len(t) : t[i].k \in SpiKinds \cup {"WritePage"}

\* The UART transmits and receives of a trace, in order.
UartTx(t) ==
    LET IsTx(e) == e.k = "uart_tx"
    IN  SelectSeq(t, IsTx)

UartRx(t) ==
    LET IsRx(e) == e.k = "uart_rx"
    IN  SelectSeq(t, IsRx)

\* The bytes of the events i..j of a sequence of events, concatenated.
RECURSIVE Bytes(_, _, _)
Bytes(evs, i, j) == IF i > j THEN <<>> ELSE evs[i].d \o Bytes(evs, i + 1, j)

\* Every byte the call handed to the UART, in order.
Sent(t) == Bytes(UartTx(t), 1, Len(UartTx(t)))

\* The acknowledgement bytes of the BOOT_SendResponse calls, in order.
Responses(t) ==
    LET IsResponse(e) == e.k = "SendResponse"
        calls == SelectSeq(t, IsResponse)
    IN  [i \in 1..Len(calls) |-> calls[i].d[1]]

\* The position of the first event of kind in ks, Len(t) + 1 if there is none.
FirstOf(t, ks, i) ==
    Bind({j \in i..Len(t) : t[j].k \in ks}, LAMBDA J :
        IF J = {} THEN Len(t) + 1
        ELSE CHOOSE j \in J : \A m \in J : j <= m)

\* The call was handed a queue that starts with both markers and command cmd.
FrameOf(cmd) ==
    /\ last.op = "Process"
    /\ Len(last.q0) >= 3
    /\ last.q0[1] = BOOT_START_MARKER1
    /\ last.q0[2] = BOOT_START_MARKER2
    /\ last.q0[3] = cmd

\* The little-endian length field of the frame at the head of q is 0 or > 4096.
BadLength(q) ==
    \/ (q[4] = 0 /\ q[5] = 0 /\ q[6] = 0 /\ q[7] = 0)
    \/ q[4] + 256 * q[5] > 4096
    \/ q[6] > 0
    \/ q[7] > 0

(***************************************************************************)
(* C4.  In every BOOT_Process call, after whatever calls came before (a    *)
(* busy-poll timeout among them), each program or erase opcode that is     *)
(* sent to the flash is sent while the device's BUSY bit is clear.         *)
(***************************************************************************)
C4_BusyClear ==
    \A i \in CommandAt(tr) :
        (tr[i].ok /\ tr[i].d[1] \in ProgramEraseOps) => ~tr[i].busy

(***************************************************************************)
(* C6.  A BOOT_Process call that finds a prefix of k > 0 non-marker bytes  *)
(* before a frame 0xAA 0x55 CMD discards bytes of the prefix only and      *)
(* emits no ACK/NACK, whether k is odd or even; a call that finds the      *)
(* frame at the head of the stream takes its command.                      *)
(***************************************************************************)
NonMarker(b) == b # BOOT_START_MARKER1 /\ b # BOOT_START_MARKER2

\* The number of non-marker bytes at the head of q.
RECURSIVE PrefixLen(_, _)
PrefixLen(q, i) ==
    IF i > Len(q) THEN 0
    ELSE IF NonMarker(q[i]) THEN 1 + PrefixLen(q, i + 1)
    ELSE 0

C6_Resync ==
    LET q == last.q0
        k == PrefixLen(q, 1)
    IN  (/\ last.op = "Process"
         /\ Len(q) >= k + 3
         /\ q[k + 1] = BOOT_START_MARKER1
         /\ q[k + 2] = BOOT_START_MARKER2)
        => /\ k > 0 => (Sent(tr) = <<>> /\ Len(q) - Len(rxq) <= k)
           /\ k = 0 => last.cmd = q[3]

(***************************************************************************)
(* C7.  A WRITE frame whose little-endian length is 0 or above 4096 is     *)
(* answered with NACK right after the length field: the call leaves every  *)
(* byte behind the length field (address, payload, CRC) on the serial      *)
(* link, hands nothing but the NACK to the UART and issues no flash        *)
(* operation.                                                              *)
(***************************************************************************)
C7_LengthRejected ==
    (FrameOf(BOOT_CMD_WRITE) /\ Len(last.q0) >= 7 /\ BadLength(last.q0)) =>
        /\ rxq = SubSeq(last.q0, 8, Len(last.q0))
        /\ Sent(tr) = <<BOOT_NACK>>
        /\ ~HasSpi(tr)
        /\ total_bytes_written = last.w0

\* Length 0x1001: the address and the two bytes after it stay on the link.
C7_Witness ==
    /\ last.op = "Process"
    /\ last.q0 = F_WriteOversize
    /\ rxq = <<0, 0, 0, 0, 17, 34>>
    /\ Sent(tr) = <<BOOT_NACK>>

(***************************************************************************)
(* C8.  For every frame that starts with 0xAA 0x55 the call makes exactly  *)
(* one acknowledgement, 0x79 or 0x1F, and that byte is the first one it    *)
(* hands to the UART: on success, receive timeout, validation failure,     *)
(* flash failure and unknown command alike.                                *)
(***************************************************************************)
C8_OneAck ==
    (/\ last.op = "Process"
     /\ Len(last.q0) >= 2
     /\ last.q0[1] = BOOT_START_MARKER1
     /\ last.q0[2] = BOOT_START_MARKER2)
    => /\ Len(Responses(tr)) = 1
       /\ Responses(tr)[1] \in {BOOT_ACK, BOOT_NACK}
       /\ FirstOf(tr, {"uart_tx"}, 1) = FirstOf(tr, {"SendResponse"}, 1) + 1
       /\ Sent(tr)[1] = Responses(tr)[1]

\* A READ that went through: the ACK, the payload and the CRC were sent.
C8_Witness ==
    /\ FrameOf(BOOT_CMD_READ)
    /\ last.st = "OK"
    /\ Len(UartTx(tr)) = 3
    /\ Responses(tr) = <<BOOT_ACK>>

(***************************************************************************)
(* C9.  In a WRITE command the flash driver is invoked only after, in      *)
(* this order, the length was received and is in 1..4096, the address was  *)
(* received, exactly `length` payload bytes were received, the 2-byte CRC  *)
(* was received and equals the CRC of the payload; nothing is received     *)
(* after and nothing is sent before.  If a step fails (a receive times     *)
(* out, the length is out of range, the CRC differs) the response is NACK, *)
(* total_bytes_written is unchanged and no SPI transaction is issued.      *)
(***************************************************************************)
\* The receives before position k: markers, command, length, address,
\* payload chunks, CRC.
ReceivedInOrder(t, k) ==
    LET rx == UartRx(SubSeq(t, 1, k - 1))
        n == Len(rx)
        payload == Bytes(rx, 5, n - 1)
    IN  /\ n >= 6
        /\ \A i \in 1..n : rx[i].ok
        /\ Len(rx[3].d) = 4
        /\ LE32(rx[3].d) # U32(0, 0)
        /\ ~U32Gt(LE32(rx[3].d), U32(0, 4096))
        /\ Len(rx[4].d) = 4
        /\ Len(payload) = Lo(LE32(rx[3].d))
        /\ Len(rx[n].d) = 2
        /\ LE16(rx[n].d) = BOOT_CalculateCRC16(payload, Len(payload))

C9_WriteChecks ==
    FrameOf(BOOT_CMD_WRITE) =>
        LET k == FirstOf(tr, SpiKinds \cup {"WritePage"}, 1)
        IN  /\ HasSpi(tr) =>
                /\ ReceivedInOrder(tr, k)
                /\ \A i \in 1..Len(tr) :
                    /\ tr[i].k = "uart_rx" => i < k
                    /\ tr[i].k = "uart_tx" => i > k
            /\ (last.st \in {"TIMEOUT", "CRC_ERR"}
                \/ (Len(last.q0) >= 7 /\ BadLength(last.q0))) =>
                /\ Responses(tr) = <<BOOT_NACK>>
                /\ total_bytes_written = last.w0
                /\ ~HasSpi(tr)

\* S4: the frame of S3 with a wrong trailing CRC.
C9_Witness ==
    /\ last.op = "Process"
    /\ last.q0 = F_WriteBadCrc
    /\ last.st = "CRC_ERR"
    /\ rxq = <<>>
    /\ Sent(tr) = <<BOOT_NACK>>
    /\ ~HasSpi(tr)

(***************************************************************************)
(* C10 as stated.  A READ command with valid length L and a successful     *)
(* flash read hands to the serial link exactly 0x79, then the L bytes the  *)
(* flash returned for the requested address, then the CRC-16 of those L    *)
(* bytes, low byte first; length 4 at address 0 over DE AD BE EF gives     *)
(* 79 DE AD BE EF and the CRC bytes 97 40 (CRC 0x4097).                    *)
(***************************************************************************)
\* The READ frame at the head of the queue was read from the flash without
\* an SPI failure.
ReadDone ==
    /\ FrameOf(BOOT_CMD_READ)
    /\ Len(last.q0) >= 11
    /\ ~BadLength(last.q0)
    /\ \E i \in 1..Len(tr) : tr[i].k = "spi_rx"
    /\ \A i \in 1..Len(tr) : tr[i].k \in SpiKinds => tr[i].ok

\* What C10 expects on the link for the READ frame at the head of q.
ReadReply(q) ==
    LET L == q[4] + 256 * q[5]
        data == FlashRange(q[8] + 256 * q[9] + 65536 * q[10], L)
        crc == BOOT_CalculateCRC16(data, L)
    IN  <<BOOT_ACK>> \o data \o <<crc % 256, crc \div 256>>

S5Reply == <<121, 222, 173, 190, 239, 151, 64>>

C10_Original ==
    ReadDone =>
        /\ Sent(tr) = ReadReply(last.q0)
        /\ last.q0 = F_Read => Sent(tr) = S5Reply

(***************************************************************************)
(* C10 as amended.  The same, provided the transmit of the L payload       *)
(* bytes succeeds; when that transmit fails the command ends there and no  *)
(* CRC is sent.                                                            *)
(***************************************************************************)
C10_ReadReply ==
    ReadDone =>
        /\ Len(UartTx(tr)) >= 2
        /\ UartTx(tr)[2].ok =>
               /\ Sent(tr) = ReadReply(last.q0)
               /\ last.q0 = F_Read => Sent(tr) = S5Reply
        /\ ~UartTx(tr)[2].ok =>
               Sent(tr) = SubSeq(ReadReply(last.q0), 1, Len(ReadReply(last.q0)) - 2)

\* S5 went through.
C10_Witness ==
    /\ last.op = "Process"
    /\ last.q0 = F_Read
    /\ last.st = "OK"
    /\ Sent(tr) = S5Reply
    /\ \A i \in 1..Len(tr) : tr[i].ok

(***************************************************************************)
(* C11.  A BOOT_Process call that answers NACK hands nothing but that one  *)
(* byte to the UART (no payload, no CRC, no diagnostic byte) and leaves    *)
(* total_bytes_written and total_bytes_read as they were; a READ whose     *)
(* flash read fails is answered with NACK alone.                           *)
(***************************************************************************)
\* The READ frame at the head of the queue is complete and valid, and an SPI
\* transfer of the flash read failed.
ReadFailed ==
    /\ FrameOf(BOOT_CMD_READ)
    /\ Len(last.q0) >= 11
    /\ ~BadLength(last.q0)
    /\ \E i \in 1..Len(tr) : tr[i].k \in {"spi_tx", "spi_rx"} /\ ~tr[i].ok

C11_NackAlone ==
    /\ (last.op = "Process" /\ \E i \in 1..Len(Responses(tr)) : Responses(tr)[i] = BOOT_NACK)
       => /\ Sent(tr) = <<BOOT_NACK>>
          /\ total_bytes_written = last.w0
          /\ total_bytes_read = last.r0
    /\ ReadFailed => Sent(tr) = <<BOOT_NACK>>

\* The receive phase of the flash read failed after the host had read before.
C11_Witness ==
    /\ ReadFailed
    /\ \E i \in 1..Len(tr) : tr[i].k = "spi_rx" /\ ~tr[i].ok
    /\ Sent(tr) = <<BOOT_NACK>>
    /\ total_bytes_read = last.r0
    /\ total_bytes_read # U32(0, 0)

(***************************************************************************)
(* C12.  On a GET_INFO command whose ID reads return (m, d) and            *)
(* (j0, j1, j2) the call hands to the UART the ACK and then exactly 13     *)
(* bytes: m, d, j0, j1, j2, 00 00 00 01 (capacity 16777216), 00 01 (page   *)
(* size 256), 00 10 (sector size 4096); if an ID read fails it hands NACK  *)
(* alone.                                                                  *)
(***************************************************************************)
\* The bytes the SPI receives of a trace returned, one sequence per receive.
SpiRead(t) ==
    LET IsRx(e) == e.k = "spi_rx"
        rx == SelectSeq(t, IsRx)
    IN  [i \in 1..Len(rx) |-> rx[i].d]

SpiFailed(t) == \E i \in 1..Len(t) : t[i].k \in {"spi_tx", "spi_rx"} /\ ~t[i].ok

C12_GetInfo ==
    FrameOf(BOOT_CMD_GET_INFO) =>
        /\ ~SpiFailed(tr) =>
               /\ Len(SpiRead(tr)) = 2
               /\ Len(SpiRead(tr)[1]) = 2
               /\ Len(SpiRead(tr)[2]) = 3
               /\ Sent(tr) = <<BOOT_ACK>> \o SpiRead(tr)[1] \o SpiRead(tr)[2]
                                \o <<0, 0, 0, 1>> \o <<0, 1>> \o <<0, 16>>
               /\ Len(Sent(tr)) = 14
        /\ SpiFailed(tr) => Sent(tr) = <<BOOT_NACK>>

\* The record of the other part went out.
C12_Witness ==
    /\ FrameOf(BOOT_CMD_GET_INFO)
    /\ last.st = "OK"
    /\ Sent(tr) = <<BOOT_ACK, 200, 22, 200, 64, 23, 0, 0, 0, 1, 0, 1, 0, 16>>

(***************************************************************************)
(* C13.  Scenario S1: the host sends AA 55 05, the ID reads return         *)
(* (0xEF, 0x17) and EF 40 18; the bytes the call hands to the UART are     *)
(* exactly 79 EF 17 EF 40 18 00 00 00 01 00 01 10 00 10.                   *)
(***************************************************************************)
S1Reply == <<121, 239, 23, 239, 64, 24, 0, 0, 0, 1, 0, 1, 16, 0, 16>>

S1 ==
    /\ last.op = "Process"
    /\ last.q0 = F_GetInfo
    /\ ~SpiFailed(tr)
    /\ SpiRead(tr) = <<<<239, 23>>, <<239, 64, 24>>>>

C13_Original == S1 => Sent(tr) = S1Reply

(***************************************************************************)
(* C13 as amended.  In scenario S1 the bytes the call hands to the UART    *)
(* are exactly 79 EF 17 EF 40 18 00 00 00 01 00 01 00 10: the ACK and the  *)
(* 13-byte record, whose last two bytes are the sector size 0x1000, low    *)
(* byte first.                                                             *)
(***************************************************************************)
S1Record == <<121, 239, 23, 239, 64, 24, 0, 0, 0, 1, 0, 1, 0, 16>>

C13_S1Reply == S1 => Sent(tr) = S1Record

\* S1 went through.
C13_Witness ==
    /\ S1
    /\ last.st = "OK"
    /\ rxq = <<>>
    /\ Sent(tr) = S1Record
    /\ \A i \in 1..Len(tr) : tr[i].ok

(***************************************************************************)
(* C14.  For an ERASE_SECTOR frame with address bytes b0 b1 b2 b3 and no   *)
(* SPI failure, the SPI traffic of the call is: one chip-select interval   *)
(* with the write enable 0x06; one interval with 0x20 b2 b1 b0; then one   *)
(* or more status reads (0x05 and one byte received), each in its own      *)
(* interval.  If the poll ends on a read that shows BUSY = 0 before the    *)
(* driver's deadline the call hands the ACK alone to the UART.             *)
(* AA 55 03 00 10 00 00 puts 20 00 10 00 on the bus and is answered 79.    *)
(***************************************************************************)
\* The chip-select and SPI events of a trace, in order.
SpiEvents(t) ==
    LET IsSpi(e) == e.k \in SpiKinds
    IN  SelectSeq(t, IsSpi)

\* Events i..i+2 of s are one interval that transmits cmd and nothing else.
CommandInterval(s, i, cmd) ==
    /\ s[i].k = "cs_low"
    /\ s[i + 1].k = "spi_tx"
    /\ s[i + 1].d = cmd
    /\ s[i + 2].k = "cs_high"

\* Events i..i+3 of s are one status read.
StatusInterval(s, i) ==
    /\ s[i].k = "cs_low"
    /\ s[i + 1].k = "spi_tx"
    /\ s[i + 1].d = <<W25Q128_CMD_READ_STATUS_REG1>>
    /\ s[i + 2].k = "spi_rx"
    /\ Len(s[i + 2].d) = 1
    /\ s[i + 3].k = "cs_high"

\* The poll that starts at event i of s ends on a read that shows BUSY = 0,
\* the tick after that read not being past the deadline.
PollCleared(s, i) ==
    /\ s[Len(s) - 1].d[1] % 2 = 0
    /\ ~U32Gt(s[Len(s)].tick, U32Add(s[i].tick, BUSY_TIMEOUT_TICKS))

KnownCommands ==
    {BOOT_CMD_WRITE, BOOT_CMD_READ, BOOT_CMD_ERASE_SECTOR, BOOT_CMD_ERASE_CHIP,
     BOOT_CMD_GET_INFO}

C15_UnknownCommand ==
    (/\ last.op = "Process"
     /\ Len(last.q0) >= 3
     /\ ~MarkerMismatch(last.q0)
     /\ last.q0[3] \notin KnownCommands)
    => /\ Responses(tr) = <<BOOT_NACK>>
       /\ Sent(tr) = <<BOOT_NACK>>
       /\ rxq = SubSeq(last.q0, 4, Len(last.q0))
       /\ ~HasSpi(tr)
       /\ total_bytes_written = last.w0
       /\ total_bytes_read = last.r0

\* VERIFY with READ-like arguments: the arguments stay on the link.
C15_Witness ==
    /\ last.op = "Process"
    /\ last.q0 = F_VerifyArgs
    /\ last.cmd = BOOT_CMD_VERIFY
    /\ Sent(tr) = <<BOOT_NACK>>
    /\ rxq = <<4, 0, 0, 0, 0, 0, 0, 0>>

(***************************************************************************)
(* C16.  Behind a valid start marker, a serial receive that times out      *)
(* (command byte, length, address, a payload chunk, CRC) is the last       *)
(* receive of the call: the call hands a single NACK to the UART, issues   *)
(* no flash operation, changes no counter and returns.                     *)
(***************************************************************************)
\* The positions of the receives that timed out.
RxTimeouts(t) == {i \in 1..Len(t) : t[i].k = "uart_rx" /\ ~t[i].ok}

C16_ReceiveTimeout ==
    (/\ last.op = "Process"
     /\ Len(last.q0) >= 2
     /\ ~MarkerMismatch(last.q0)
     /\ RxTimeouts(tr) # {})
    => /\ \A i \in RxTimeouts(tr) : \A j \in (i + 1)..Len(tr) : tr[j].k # "uart_rx"
       /\ Responses(tr) = <<BOOT_NACK>>
       /\ Sent(tr) = <<BOOT_NACK>>
       /\ \A i \in RxTimeouts(tr) : \A j \in 1..Len(tr) : tr[j].k = "uart_tx" => j > i
       /\ ~HasSpi(tr)
       /\ total_bytes_written = last.w0
       /\ total_bytes_read = last.r0

\* The second payload chunk of a WRITE timed out, the first having arrived.
C16_Witness ==
    /\ last.op = "Process"
    /\ last.q0 = F_WriteBigCut
    /\ last.st = "TIMEOUT"
    /\ Len(UartRx(tr)) = 6
    /\ Len(UartRx(tr)[5].d) = BOOT_BUFFER_SIZE
    /\ UartRx(tr)[5].ok
    /\ ~UartRx(tr)[6].ok
    /\ Sent(tr) = <<BOOT_NACK>>

(***************************************************************************)
(* C17.  W25Q128_WaitForWriteEnd starts with a status read, whatever the   *)
(* tick, and returns: an error if a status read fails; a timeout if, at a  *)
(* read that still shows BUSY, more than 5000 ticks have passed since the  *)
(* entry; success whenever a status read succeeds and shows BUSY = 0.      *)
(***************************************************************************)
\* (uint32_t)(x - y): the ticks that passed from y to x.
U32Sub(x, y) ==
    LET lo == Lo(x) - Lo(y) + UINT16
        hi == Hi(x) - Hi(y) + UINT16 - (IF lo < UINT16 THEN 1 ELSE 0)
    IN  U32(hi % UINT16, lo % UINT16)

\* More than 5000 ticks passed between the ticks entry and t.
PastDeadline(entry, t) == U32Gt(U32Sub(t, entry), U32(0, BUSY_TIMEOUT_TICKS))

C17_Original ==
    last.op = "WaitForWriteEnd" =>
        LET s == SpiEvents(tr)
        IN  /\ Len(s) >= 3
            /\ s[1].k = "cs_low"
            /\ s[2].k = "spi_tx"
            /\ s[2].d = <<W25Q128_CMD_READ_STATUS_REG1>>
            /\ SpiFailed(tr) => last.st = "ERROR"
            /\ ~SpiFailed(tr) =>
                   /\ StatusInterval(s, Len(s) - 3)
                   /\ last.st \in {"OK", "TIMEOUT"}
                   /\ s[Len(s) - 1].d[1] % 2 = 0 => last.st = "OK"
                   /\ (s[Len(s) - 1].d[1] % 2 = 1
                       /\ PastDeadline(s[1].tick, s[Len(s)].tick)) => last.st = "TIMEOUT"

(***************************************************************************)
(* One command with the busy-poll in steps.  An erase command runs up to   *)
(* the entry of W25Q128_WaitForWriteEnd in one step; every iteration of    *)
(* the do-while loop is a step of its own, during which the tick may       *)
(* advance; the command's other steps, and the commands that poll nothing, *)
(* are BOOT_Process calls as before.  The device may keep BUSY set for     *)
(* ever, and the host may stop in the middle of a frame.                   *)
(***************************************************************************)
\* The ticks that pass during one status read, when some do.
LiveStride == UINT16 * 4096
LiveSteps == {0, LiveStride}

EraseFrames == {F_EraseChip, F_EraseSector, F_EraseSectorFar}
QuickFrames ==
    {F_GetInfo, F_Read, F_Unknown, F_MarkerOnly, F_EraseCutAddr, F_ReadCutAddr,
     F_WriteCutData, F_WriteBadCrc}

\* The environments of the start of an erase: the entry tick, the busy time
\* of the device, a failing SPI call.
LiveEnvs ==
    {MkEnv(f, 0, p, t, 0) : f \in 0..2, p \in 0..MaxPolls, t \in TickStarts}

\* W25Q128_EraseSector and W25Q128_EraseChip up to the call of
\* W25Q128_WaitForWriteEnd; st = "POLL" when the call is reached.
EraseIssue(c, cmd) ==
    Bind(W25Q128_WriteEnable(c), LAMBDA we :
        IF we.st # "OK" THEN Ret(we, "ERROR")
        ELSE Bind(HAL_SPI_Transmit(CS_LOW(we), cmd), LAMBDA a :
            IF a.st # "OK" THEN Ret(CS_HIGH(a), "ERROR")
            ELSE Ret(CS_HIGH(a), "POLL")))

\* BOOT_Process and the erase handler of a complete erase frame, up to the
\* busy-poll.
EraseStart(c) ==
    Bind(HAL_UART_Receive(c, 2, c.env.hdr), LAMBDA h :
    Bind(BOOT_ReceiveData(h, 1), LAMBDA rc :
    IF rc.out[1] = BOOT_CMD_ERASE_CHIP
        THEN EraseIssue([rc EXCEPT !.cmd = rc.out[1]], <<W25Q128_CMD_CHIP_ERASE>>)
    ELSE Bind(BOOT_ReceiveData([rc EXCEPT !.cmd = rc.out[1]], 4), LAMBDA r1 :
        EraseIssue([r1 EXCEPT !.addr = LE32(r1.out)],
                   <<W25Q128_CMD_SECTOR_ERASE_4KB>> \o AddrBytes(LE32(r1.out))))))

\* The command ends with the handler's status st: BOOT_Process sends the
\* response and returns to wait for the next start marker.
LiveDone(c0, response, st, held) ==
    \E c \in {BOOT_SendResponse(c0, response)} :
        /\ pc' = "marker"
        /\ now' = U32(0, 0)
        /\ deadline' = U32(0, 0)
        /\ stuck' = FALSE
        /\ tr' = tr \o c.tr
        /\ cs' = c.cs
        /\ dev' = held
        /\ wel' = c.wel
        /\ rxq' = c.rxq
        /\ last' = [NoCall EXCEPT !.op = "Process", !.st = st, !.cmd = c.cmd]
        /\ UNCHANGED <<total_bytes_written, total_bytes_read, left>>

LiveErase ==
    /\ Idle
    /\ pc = "marker"
    /\ rxq = <<>>
    /\ \E f \in EraseFrames, e \in LiveEnvs, s \in BOOLEAN :
           \E c \in {EraseStart([Ctx(e) EXCEPT !.rxq = f])} :
               IF c.st = "POLL"
               THEN /\ pc' = "poll"
                    /\ now' = HAL_GetTick(c)
                    /\ deadline' = U32Add(HAL_GetTick(c), BUSY_TIMEOUT_TICKS)
                    /\ stuck' = (s /\ c.dev > 0)
                    /\ tr' = c.tr
                    /\ cs' = c.cs
                    /\ dev' = c.dev
                    /\ wel' = c.wel
                    /\ rxq' = c.rxq
                    /\ UNCHANGED <<total_bytes_written, total_bytes_read, last, left>>
               ELSE LiveDone(c, BOOT_NACK, "ERROR", c.dev)

\* The status read of one iteration of the busy-poll, by the state of the
\* device it meets: W25Q128_ReadStatusRegister with the f-th SPI call failing,
\* the device BUSY for another dv reads and the write-enable latch at w.
StatusReads ==
    {[f |-> f, dev |-> dv, wel |-> w,
      a |-> W25Q128_ReadStatusRegister(
                [tr |-> <<>>, cs |-> "high", dev |-> dv, wel |-> w, frame |-> <<>>,
                 nspi |-> 0, nutx |-> 0, rxq |-> <<>>, tick |-> U32(0, 0),
                 env |-> MkEnv(f, 0, 0, U32(0, 0), 0),
                 st |-> "OK", out |-> <<>>, cmd |-> 0 - 1, dl |-> U32(0, 0),
                 addr |-> U32(0, 0), buf |-> <<>>,
                 w |-> U32(0, 0), r |-> U32(0, 0)])] :
        f \in 0..2, dv \in 0..MaxPolls, w \in BOOLEAN}

\* One iteration of the do-while loop of W25Q128_WaitForWriteEnd, during
\* which d ticks pass, and what follows the loop when it ends.
LivePollStep(d) ==
    /\ pc = "poll"
    /\ cs = "high"
    /\ \E s \in StatusReads :
           /\ s.dev = dev
           /\ s.wel = wel
           /\ \E a \in {[s.a EXCEPT !.tr = <<>>, !.tick = U32Add(now, d)]} :
              \E held \in {IF stuck THEN dev ELSE a.dev} :
                  IF a.st # "OK"
                      THEN LiveDone(a, BOOT_NACK, "ERROR", held)
                  ELSE IF U32Gt(HAL_GetTick(a), deadline)
                      THEN LiveDone(a, BOOT_NACK, "ERROR", held)
                  ELSE IF a.out[1] % 2 = W25Q128_STATUS_BUSY
                      THEN /\ now' = HAL_GetTick(a)
                           /\ dev' = held
                           /\ cs' = a.cs
                           /\ wel' = a.wel
                           /\ UNCHANGED <<tr, rxq, total_bytes_written,
                                          total_bytes_read, last, pc, deadline, stuck,
                                          left>>
                  ELSE LiveDone(a, BOOT_ACK, "OK", held)

LivePoll == \E d \in LiveSteps : LivePollStep(d)

\* A command that polls nothing.
LiveQuick ==
    /\ Idle
    /\ pc = "marker"
    /\ rxq = <<>>
    /\ \E f \in QuickFrames :
           /\ f \in DataFrames =>
                  Lo(total_bytes_written) + Lo(total_bytes_read) < MaxTotal
           /\ \E e \in ProcessEnvs(f) :
                  LET c == BOOT_Process([Ctx(e) EXCEPT !.rxq = f])
                  IN  Commit(c, "Process", c.addr, 0)

NextLive ==
    \/ LiveErase
    \/ LivePoll
    \/ LiveQuick
    \/ Return

\* The status read returns and the tick keeps advancing.
SpecLive == Init /\ [][NextLive]_vars /\ WF_vars(LivePollStep(LiveStride))

(***************************************************************************)
(* C18.  With the tick advancing and every primitive returning, a command  *)
(* that has reached the busy-poll eventually completes: BOOT_Process hands *)
(* its ACK or NACK to the UART and returns to wait for the next start      *)
(* marker, even if the flash stays BUSY for ever.                          *)
(***************************************************************************)
C18_Completes ==
    (pc = "poll") ~> (pc = "marker" /\ last.op = "Process" /\ Len(Responses(tr)) = 1)


(***************************************************************************)
(* C19.  After a command that ended in NACK, with k bytes of the failed    *)
(* frame still on the link, the next well-formed frame of the host is      *)
(* parsed as if the failed command had never been sent: a call that finds  *)
(* k > 0 bytes of the failed frame before it takes bytes of the failed     *)
(* frame only and answers nothing, and a call that finds it at the head of *)
(* the stream takes its command and all its bytes and answers it once.     *)
(***************************************************************************)
C19_CleanStart ==
    LET q == last.q0
        k == last.k0
    IN  (/\ last.op = "Process"
         /\ k >= 0
         /\ Len(q) > k
         /\ SubSeq(q, k + 1, Len(q)) \in NextFrames)
        => IF k > 0
               THEN Sent(tr) = <<>> /\ Len(q) - Len(rxq) <= k
           ELSE /\ last.cmd = q[3]
                /\ rxq = <<>>
                /\ Len(Responses(tr)) = 1


(***************************************************************************)
(* C20.  The status that W25Q128_WritePage and W25Q128_Write return names  *)
(* the kind of the failure: the Timeout kind when the call fails with      *)
(* every SPI transfer done and the arguments in range, that is, when the   *)
(* busy-poll deadline overruns; the Transport kind when an SPI transfer    *)
(* fails; a kind of its own, which is neither of these, when               *)
(* W25Q128_WritePage is given more than 256 bytes.                         *)
(***************************************************************************)
PageOverrun == last.op = "WritePage" /\ last.len > W25Q128_PAGE_SIZE

C20_FailureKinds ==
    last.op \in {"WritePage", "Write"} =>
        /\ PageOverrun => last.st \notin {"OK", "ERROR", "TIMEOUT"}
        /\ SpiFailed(tr) => last.st = "ERROR"
        /\ (~PageOverrun /\ ~SpiFailed(tr) /\ last.st # "OK") => last.st = "TIMEOUT"


(***************************************************************************)
(* BOOT_CalculateCRC16 called on its own, on inputs drawn at the start.    *)
(***************************************************************************)
CrcBytesIn == {0, 1, 49, 128, 255}
CrcInputs == UNION {[1..n -> CrcBytesIn] : n \in 0..MaxCrcLen} \cup {Digits}

InitCrc ==
    /\ tr = <<>>
    /\ cs = "high"
    /\ dev = 0
    /\ wel = FALSE
    /\ rxq \in CrcInputs
    /\ total_bytes_written = U32(0, 0)
    /\ total_bytes_read = U32(0, 0)
    /\ last = NoCall
    /\ pc = "marker"
    /\ now = U32(0, 0)
    /\ deadline = U32(0, 0)
    /\ stuck = FALSE
    /\ left = 0 - 1

\* crc = BOOT_CalculateCRC16(data, length) on the bytes in rxq; the value
\* returned is kept in last.len.
CallCalculateCRC16 ==
    /\ Idle
    /\ last' = [NoCall EXCEPT !.op = "CalculateCRC16", !.q0 = rxq,
                              !.len = BOOT_CalculateCRC16(rxq, Len(rxq))]
    /\ UNCHANGED <<tr, cs, dev, wel, rxq, total_bytes_written, total_bytes_read>>
    /\ UNCHANGED <<pollvars, left>>

NextCrc ==
    \/ CallCalculateCRC16
    \/ Return

SpecCrc == InitCrc /\ [][NextCrc]_vars

(***************************************************************************)
(* The reference: CRC-16/CCITT-FALSE as the remainder register of a        *)
(* bit-serial division, fed the message one bit at a time, the most        *)
(* significant bit of each byte first; initial value 0xFFFF, polynomial    *)
(* 0x1021, nothing reflected, no final XOR.                                *)
(***************************************************************************)
RefBit(reg, bit) ==
    LET shifted == (reg * 2) % 65536
    IN  IF Xor1(reg \div 32768, bit) = 1 THEN BitXor(shifted, 4129, 16) ELSE shifted

\* The register after the bits k-1..0 of byte; each value of the register
\* is taken before the next bit is fed.
RECURSIVE RefByte(_, _, _)
RefByte(reg, byte, k) ==
    IF k = 0 THEN reg
    ELSE Bind(RefBit(reg, (byte \div (2 ^ (k - 1))) % 2), LAMBDA r :
             IF r >= 0 THEN RefByte(r, byte, k - 1) ELSE r)

RECURSIVE RefCrc16(_, _)
RefCrc16(s, n) ==
    IF n = 0 THEN 65535
    ELSE Bind(RefCrc16(s, n - 1), LAMBDA r :
             IF r >= 0 THEN RefByte(r, s[n], 8) ELSE r)

(***************************************************************************)
(* C21.  BOOT_CalculateCRC16 returns 0xFFFF for the empty sequence, 0x29B1 *)
(* for the nine ASCII bytes "123456789", and for every byte sequence the   *)
(* 16-bit value of the bitwise reference of CRC-16/CCITT-FALSE.            *)
(***************************************************************************)
C21_Crc16 ==
    last.op = "CalculateCRC16" =>
        /\ last.len = RefCrc16(last.q0, Len(last.q0))
        /\ last.len \in 0..65535
        /\ last.q0 = <<>> => last.len = 65535
        /\ last.q0 = Digits => last.len = 10673

C21_Witness ==
    /\ last.op = "CalculateCRC16"
    /\ last.q0 = Digits
    /\ last.len = 10673


(***************************************************************************)
(* C22.  From the zero of BOOT_Init on, every BOOT_Process call changes    *)
(* the counters so: total_bytes_written grows (mod 2^32) by the length of  *)
(* the command exactly when the command is a WRITE answered with ACK, and  *)
(* total_bytes_read by the length of the command exactly when it is a READ *)
(* whose ACK was sent and whose payload was transmitted; every other call  *)
(* (the erases, GET_INFO, an unknown command, discarded bytes, a NACKed    *)
(* WRITE or READ) leaves both as they were.  The counters are therefore    *)
(* the sums of those lengths.                                              *)
(***************************************************************************)
WriteCounted == last.cmd = BOOT_CMD_WRITE /\ Responses(tr) = <<BOOT_ACK>>

ReadCounted ==
    /\ last.cmd = BOOT_CMD_READ
    /\ Responses(tr) = <<BOOT_ACK>>
    /\ Len(UartTx(tr)) >= 2
    /\ UartTx(tr)[2].ok

C23_ReadLengthRejected ==
    (FrameOf(BOOT_CMD_READ) /\ Len(last.q0) >= 7 /\ BadLength(last.q0)) =>
        /\ rxq = SubSeq(last.q0, 8, Len(last.q0))
        /\ Len(UartRx(tr)) = 3
        /\ Sent(tr) = <<BOOT_NACK>>
        /\ ~HasSpi(tr)
        /\ last.st = "ERROR"

\* Length 0: the four address bytes stay on the link.
C23_Witness ==
    /\ last.op = "Process"
    /\ last.q0 = F_ReadLen0
    /\ rxq = <<0, 0, 0, 0>>
    /\ Sent(tr) = <<BOOT_NACK>>
    /\ ~HasSpi(tr)


(***************************************************************************)
(* C24.  W25Q128_WritePage called with more than 256 bytes returns an      *)
(* error and does nothing else: chip-select is never driven low, no SPI    *)
(* byte is sent (no write enable, no opcode) and none is received (no      *)
(* status poll), and chip-select is high when the call returns.            *)
(***************************************************************************)
C24_OverrunRejected ==
    PageOverrun =>
        /\ last.st = "ERROR"
        /\ SpiEvents(tr) = <<>>
        /\ cs = "high"
        /\ total_bytes_written = last.w0
        /\ total_bytes_read = last.r0

C24_Witness ==
    /\ PageOverrun
    /\ last.len = W25Q128_PAGE_SIZE + 1
    /\ last.st = "ERROR"
    /\ Len(tr) = 1


(***************************************************************************)
(* C25.  When a page program inside W25Q128_Write fails, by an SPI error   *)
(* or by the timeout of its busy-poll, the write ends there: the page      *)
(* programs before the failed one went through (write enable, opcode 0x02  *)
(* with address and data, a poll that saw BUSY clear), each starts where   *)
(* the one before it ended, so none is repeated, the failed one is the     *)
(* last, after a failed SPI transfer nothing but the release of            *)
(* chip-select goes to the flash, and no other opcode than 0x06, 0x02 and  *)
(* 0x05 is sent, so that what was programmed stays programmed.  The engine *)
(* answers the WRITE with NACK alone and leaves total_bytes_written as it  *)
(* was.                                                                    *)
(***************************************************************************)
PageAt(t) == {i \in 1..Len(t) : t[i].k = "WritePage"}

\* The position behind the W25Q128_WritePage call that starts at i.
PageEnd(t, i) ==
    Bind({j \in (i + 1)..Len(t) : t[j].k \in {"WritePage", "SendResponse"}}, LAMBDA J :
        IF J = {} THEN Len(t) + 1 ELSE CHOOSE j \in J : \A m \in J : j <= m)

\* The page program that starts at i went through: every transfer done, and
\* the last status read shows BUSY clear and returns by the deadline of the
\* busy-poll, which is entered at i + 8.
PageDone(t, i) ==
    LET j == PageEnd(t, i)
        n == t[i].d[3]
    IN  /\ \A k \in i..(j - 1) : t[k].k \in {"spi_tx", "spi_rx"} => t[k].ok
        /\ j - i >= 12
        /\ t[i + 2].d = <<W25Q128_CMD_WRITE_ENABLE>>
        /\ t[i + 5].d[1] = W25Q128_CMD_PAGE_PROGRAM
        /\ t[i + 6].k = "spi_tx" /\ Len(t[i + 6].d) = n
        /\ t[j - 1].k = "cs_high"
        /\ t[j - 2].k = "spi_rx" /\ t[j - 2].d[1] % 2 = 0
        /\ ~U32Gt(t[j - 1].tick, U32Add(t[i + 8].tick, BUSY_TIMEOUT_TICKS))
        /\ t[j - 3].d = <<W25Q128_CMD_READ_STATUS_REG1>>

\* A WRITE command whose W25Q128_Write was called and failed.
WriteFailed ==
    /\ last.op = "Process"
    /\ last.cmd = BOOT_CMD_WRITE
    /\ PageAt(tr) # {}
    /\ Responses(tr) = <<BOOT_NACK>>

C25_WriteStops ==
    WriteFailed =>
        LET P == PageAt(tr)
            calls == PageCalls(tr)
            final == CHOOSE i \in P : \A m \in P : m <= i
        IN  /\ \A i \in P \ {final} : PageDone(tr, i)
            /\ ~PageDone(tr, final)
            /\ U32(calls[1][1], calls[1][2]) = last.addr
            /\ \A k \in 2..Len(calls) :
                   /\ calls[k - 1][3] > 0
                   /\ U32(calls[k][1], calls[k][2])
                          = U32Add(U32(calls[k - 1][1], calls[k - 1][2]), calls[k - 1][3])
            /\ SumLens(calls, 1) <= Lo(last.dl)
            /\ \A f \in 1..Len(tr) :
                   (tr[f].k \in {"spi_tx", "spi_rx"} /\ ~tr[f].ok) =>
                       \A k \in (f + 1)..Len(tr) :
                           tr[k].k \in {"cs_high", "SendResponse", "uart_tx"}
            /\ \A i \in CommandAt(tr) :
                   tr[i].d[1] \in {W25Q128_CMD_WRITE_ENABLE, W25Q128_CMD_PAGE_PROGRAM,
                                   W25Q128_CMD_READ_STATUS_REG1}
            /\ Sent(tr) = <<BOOT_NACK>>
            /\ total_bytes_written = last.w0
            /\ total_bytes_read = last.r0

\* The busy-poll of the second page of S3's frame times out, the first page
\* (4 bytes up to the page boundary) having been programmed.
C25_Witness ==
    /\ WriteFailed
    /\ last.q0 = F_Write
    /\ ~SpiFailed(tr)
    /\ PageCalls(tr) = <<<<0, 252, 4>>, <<0, 256, 5>>>>
    /\ PageDone(tr, CHOOSE i \in PageAt(tr) : \A m \in PageAt(tr) : i <= m)
    /\ total_bytes_written = last.w0


(***************************************************************************)
(* C26.  W25Q128_Read(addr, buf, n) makes exactly one chip-select          *)
(* interval.  In it it transmits opcode 0x03 and the address as three      *)
(* bytes, most significant first, and, the transmit done, receives n       *)
(* bytes; then it releases chip-select.  It sends no write enable and      *)
(* reads no status register, before or after, whether the device is BUSY   *)
(* or not.                                                                 *)
(***************************************************************************)
ReadCommand(addr) ==
    <<W25Q128_CMD_READ_DATA, Hi(addr) % 256, Lo(addr) \div 256, Lo(addr) % 256>>

C26_ReadTransaction ==
    last.op = "Read" =>
        /\ Len(tr) \in {3, 4}
        /\ \A i \in 1..Len(tr) : tr[i].k \in SpiKinds
        /\ tr[1].k = "cs_low"
        /\ tr[2].k = "spi_tx" /\ tr[2].d = ReadCommand(last.addr)
        /\ tr[Len(tr)].k = "cs_high"
        /\ tr[2].ok = (Len(tr) = 4)
        /\ Len(tr) = 4 => tr[3].k = "spi_rx" /\ Len(tr[3].d) = last.len
        /\ (\A i \in 1..Len(tr) : tr[i].ok) = (last.st = "OK")
        /\ cs = "high"

\* A read of 4 bytes at 0x123456 while the device is BUSY.
C26_Witness ==
    /\ last.op = "Read"
    /\ last.st = "OK"
    /\ last.addr = U32(18, 13398)
    /\ last.len = 4
    /\ tr[1].busy
    /\ tr[2].d = <<3, 18, 52, 86>>
    /\ Len(tr[3].d) = 4


(***************************************************************************)
(* C27.  W25Q128_WaitForWriteEnd returns a timeout only if more than 5000  *)
(* ticks have passed, counted mod 2^32, between its entry and the status   *)
(* read it returns after; this for every tick at entry, the ticks within   *)
(* 5000 of 2^32 included.                                                  *)
(***************************************************************************)
C27_TimeoutElapsed ==
    (last.op = "WaitForWriteEnd" /\ last.st = "TIMEOUT") =>
        PastDeadline(tr[1].tick, tr[Len(tr)].tick)


(***************************************************************************)
(* C28.  W25Q128_Read, W25Q128_WritePage, W25Q128_EraseSector and          *)
(* W25Q128_EraseBlock64KB put on the SPI bus the low 24 bits of the        *)
(* address and nothing of its top byte, so that a and a + k * 2^24 give    *)
(* the same bytes, and they refuse no address: with the SPI transfers      *)
(* before it done, the command with the low 24 bits is sent, also for an   *)
(* address at or above the capacity of the device, and a read returns the  *)
(* contents at the low 24 bits.  A W25Q128_Write that runs past 0xFFFFFF   *)
(* goes on programming at the low 24 bits of its addresses.                *)
(***************************************************************************)
\* The three address bytes of the low 24 bits of a.
Low24(a) == <<Hi(a) % 256, Lo(a) \div 256, Lo(a) % 256>>

AddressedOps == {"Read", "WritePage", "EraseSector", "EraseBlock64KB"}

OpcodeOf(op) ==
    IF op = "Read" THEN W25Q128_CMD_READ_DATA
    ELSE IF op = "EraseSector" THEN W25Q128_CMD_SECTOR_ERASE_4KB
    ELSE IF op = "EraseBlock64KB" THEN W25Q128_CMD_BLOCK_ERASE_64KB
    ELSE W25Q128_CMD_PAGE_PROGRAM

\* The positions of the commands of a trace that carry opcode op.
OpcodeAt(t, op) == {i \in CommandAt(t) : t[i].d[1] = op}

C28_Low24 ==
    /\ (last.op \in AddressedOps /\ ~PageOverrun) =>
           LET at == OpcodeAt(tr, OpcodeOf(last.op))
           IN  /\ \A i \in at : tr[i].d = <<OpcodeOf(last.op)>> \o Low24(last.addr)
               /\ ~SpiFailed(tr) => (Cardinality(at) = 1 /\ last.st \in {"OK", "TIMEOUT"})
               /\ (last.op = "Read" /\ last.st = "OK") =>
                      \E i \in 1..Len(tr) :
                          /\ tr[i].k = "spi_rx"
                          /\ tr[i].d = FlashRange((Hi(last.addr) % 256) * UINT16
                                                      + Lo(last.addr), last.len)
    /\ last.op = "Write" =>
           LET at == OpcodeAt(tr, W25Q128_CMD_PAGE_PROGRAM)
               calls == PageCalls(tr)
           IN  /\ Cardinality(at) <= Len(calls)
               /\ \A i \in at :
                      LET k == Cardinality({j \in at : j <= i})
                      IN  tr[i].d = <<W25Q128_CMD_PAGE_PROGRAM>>
                                        \o Low24(U32(calls[k][1], calls[k][2]))
               /\ (~SpiFailed(tr) /\ last.len > 0) =>
                      (Cardinality(at) = Len(calls) /\ last.st \in {"OK", "ERROR"})

\* Two bytes written at 0xFFFFFF: the second is programmed with the address
\* bytes 00 00 00.
C28_Witness ==
    /\ last.op = "Write"
    /\ last.st = "OK"
    /\ last.addr = U32(255, UINT16 - 1)
    /\ last.len = 2
    /\ PageCalls(tr) = <<<<255, UINT16 - 1, 1>>, <<256, 0, 1>>>>
    /\ \E i \in OpcodeAt(tr, W25Q128_CMD_PAGE_PROGRAM) :
           tr[i].d = <<W25Q128_CMD_PAGE_PROGRAM, 0, 0, 0>>


(***************************************************************************)
(* C29.  When the SPI transmit of the write enable fails inside            *)
(* W25Q128_WritePage, W25Q128_EraseSector, W25Q128_EraseBlock64KB or       *)
(* W25Q128_EraseChip, the operation returns an error with chip-select      *)
(* high, and the failed transmit in its own chip-select interval is all    *)
(* that goes to the flash: no program or erase opcode, no status poll.     *)
(***************************************************************************)
ProgramEraseCalls == {"WritePage", "EraseSector", "EraseBlock64KB", "EraseChip"}

WriteEnableFailed ==
    /\ last.op \in ProgramEraseCalls
    /\ Len(SpiEvents(tr)) >= 2
    /\ SpiEvents(tr)[2].k = "spi_tx"
    /\ SpiEvents(tr)[2].d = <<W25Q128_CMD_WRITE_ENABLE>>
    /\ ~SpiEvents(tr)[2].ok

C29_WriteEnableFailure ==
    WriteEnableFailed =>
        /\ last.st = "ERROR"
        /\ cs = "high"
        /\ Len(SpiEvents(tr)) = 3
        /\ SpiEvents(tr)[1].k = "cs_low"
        /\ SpiEvents(tr)[3].k = "cs_high"
        /\ \A i \in 1..Len(tr) :
               tr[i].k = "spi_tx" =>
                   tr[i].d[1] \notin ProgramEraseOps \cup {W25Q128_CMD_READ_STATUS_REG1}
        /\ \A i \in 1..Len(tr) : tr[i].k # "spi_rx"

C29_Witness ==
    /\ last.op = "EraseChip"
    /\ WriteEnableFailed
    /\ last.st = "ERROR"
    /\ cs = "high"
    /\ Len(SpiEvents(tr)) = 3

====
